---- MODULE Spec2Model ----
(***************************************************************************)
(* Model of the concurrent momentum ranking and batch backtest engine of   *)
(* quant.intro: BatchBacktestEngine / SingleBacktestRunner (backtest.py),  *)
(* MomentumStrategy (strategy.py), StockDataLoader (data_loader.py) and    *)
(* the factor functions (factors.py).                                      *)
(*                                                                         *)
(* The event loop runs one coroutine at a time: a task action is the code  *)
(* a task runs between two suspensions.  The per-ticker fetches run on the *)
(* worker threads of the task's ThreadPoolExecutor and interleave freely.  *)
(***************************************************************************)
EXTENDS Integers, Sequences, FiniteSets, TLC

\* ------------------------------------------------------------------ bounds
MaxTasks == 2          \* most periods in a batch
MaxWorkers == 2        \* largest max_workers tried
MaxTopN == 2           \* largest top_n tried
MaxRankN == 4          \* largest top_n of a direct get_top_stocks call
MaxDays == 400         \* largest day count resolved directly
MaxResults == 3        \* longest result list analysed directly
MaxPeriodDays == 2500  \* largest lookback given to calculate_period directly
MaxNegativeDays == 3   \* the lookbacks below zero given to it: down to -3
MaxSeries == 3         \* longest series given to a factor function directly
MaxLookback == 4       \* largest lookback_days given to calculate_price_momentum
MaxWindow == 5         \* largest window given to calculate_volume_momentum
MaxFrameRows == 2      \* most rows of a DataFrame given to validate_data_quality
MaxMinRecords == 3     \* largest min_records given to it

\* ------------------------------------------------------- program constants
max_retries == 2       \* fetch_single_stock(max_retries=2)
LongWindow == 365      \* lookback_days >= 365: long backtest
MinLongRows == 30      \* a long backtest needs at least 30 rows
AsyncMinRecords == 2   \* validate_data_quality(raw_data, min_records=2)
DefaultMinRecords == 10 \* validate_data_quality(data, min_records=10)
RsiWindow == 14        \* calculate_rsi(data, 14)
VolumeWindow == 20     \* calculate_volume_momentum(data, 20)

\* Python's None where a date is expected, and a date.
NoDate == [set |-> FALSE, day |-> 0]
Date(d) == [set |-> TRUE, day |-> d]

\* ------------------------------------------------------------------ inputs
\* The ticker list handed to every task (BacktestConfig.tickers).
Tickers == <<"AAA", "BBB">>
\* The ticker lists handed to a single run_single_backtest call.
TickerLists == {<<>>, <<"AAA">>, Tickers, <<"AAA", "AAA">>}
\* The tickers of a list.
Names(list) == {list[t] : t \in 1..Len(list)}

\* "now" and the anchor dates are day numbers.
Now == 2500

\* A period is an int (day count) or a str.
IntPeriod(n) == [tag |-> "int", n |-> n, text |-> ""]
StrPeriod(s) == [tag |-> "str", n |-> 0, text |-> s]
\* A lookback_period that is neither: a float.
FloatPeriod == [tag |-> "float", n |-> 0, text |-> ""]
PeriodList ==
    <<IntPeriod(20), IntPeriod(365), StrPeriod("2020-01-01"), StrPeriod("garbage")>>
PeriodChoices == {PeriodList[k] : k \in 1..Len(PeriodList)}

\* A provider frame: rows returned, rows holding a NaN, whether the required
\* columns are all there, and the slope of its closes.
Frame(rows, nulls, cols, seed) ==
    [kind |-> "data", rows |-> rows, nulls |-> nulls, cols |-> cols, seed |-> seed]
Raise == [kind |-> "raise", rows |-> 0, nulls |-> 0, cols |-> FALSE, seed |-> 0]
RowChoices == {0, 1, 10, 30}
SeedChoices == {1}
GoodFrames == {Frame(r, 0, TRUE, s) : r \in RowChoices \ {0, 1}, s \in SeedChoices}
BadFrames == {Frame(0, 0, TRUE, 0), Frame(1, 0, TRUE, 0),
              Frame(30, 29, TRUE, 0), Frame(30, 0, FALSE, 0)}
Responses == {Raise} \cup GoodFrames \cup BadFrames

\* A provider call failed: it raised or returned no rows.
ResponseFailed(r) == r.kind = "raise" \/ r.rows = 0

\* ------------------------------------------------------------ pure helpers
\* pd.to_datetime: the day number of a date string; not set when it raises.
to_datetime(text) ==
    CASE text = "2020-01-01" -> Date(100)
      [] text = "today" -> Date(Now)
      [] text = "2027-01-01" -> Date(2600)
      [] OTHER -> NoDate

\* Mutant of parse_lookback_period: a day count must be larger than 1.
parse_lookback_period_reject_one(period) ==
    IF period.tag = "int" /\ period.n > 1
    THEN [ok |-> TRUE, lookback_days |-> period.n, start_date |-> NoDate,
          period_type |-> "days"]
    ELSE IF period.tag = "str" /\ to_datetime(period.text).set
    THEN [ok |-> TRUE, lookback_days |-> Now - to_datetime(period.text).day,
          start_date |-> to_datetime(period.text), period_type |-> "date"]
    ELSE [ok |-> FALSE, lookback_days |-> 0, start_date |-> NoDate,
          period_type |-> "invalid"]

\* Mutant of parse_lookback_period: an unparsable string is coerced to a
\* date-mode window instead of raising.
parse_lookback_period_coerce(period) ==
    IF period.tag = "int"
    THEN [ok |-> TRUE, lookback_days |-> period.n, start_date |-> NoDate,
          period_type |-> "days"]
    ELSE [ok |-> TRUE,
          lookback_days |-> IF to_datetime(period.text).set
                            THEN Now - to_datetime(period.text).day ELSE 0,
          start_date |-> to_datetime(period.text), period_type |-> "date"]

\* MomentumStrategy._parse_lookback_period: the window, or the ValueError.
parse_lookback_period(period) ==
    IF period.tag = "int"
    THEN [ok |-> TRUE, lookback_days |-> period.n, start_date |-> NoDate,
          period_type |-> "days"]
    ELSE IF period.tag = "str"
    THEN IF ~to_datetime(period.text).set
         THEN [ok |-> FALSE, lookback_days |-> 0, start_date |-> NoDate,
               period_type |-> "invalid"]
         ELSE [ok |-> TRUE, lookback_days |-> Now - to_datetime(period.text).day,
               start_date |-> to_datetime(period.text), period_type |-> "date"]
    ELSE [ok |-> FALSE, lookback_days |-> 0, start_date |-> NoDate,
          period_type |-> "invalid"]

\* Mutant of calculate_period: the periods of 6 months and 1 year swapped.
calculate_period_swapped(lookback_days) ==
    LET required_days == IF lookback_days >= 0 THEN (lookback_days * 3) \div 2
                         ELSE -(((-lookback_days) * 3) \div 2)
    IN  IF required_days <= 5 THEN "5d"
        ELSE IF required_days <= 30 THEN "1mo"
        ELSE IF required_days <= 90 THEN "3mo"
        ELSE IF required_days <= 180 THEN "1y"
        ELSE IF required_days <= 365 THEN "6mo"
        ELSE IF required_days <= 730 THEN "2y"
        ELSE IF required_days <= 1095 THEN "5y"
        ELSE IF required_days <= 1825 THEN "5y"
        ELSE IF required_days <= 3650 THEN "10y"
        ELSE "max"

\* DataPeriodCalculator.calculate_period; int(lookback_days * 1.5).
calculate_period(lookback_days) ==
    LET required_days == IF lookback_days >= 0 THEN (lookback_days * 3) \div 2
                         ELSE -(((-lookback_days) * 3) \div 2)
    IN  IF required_days <= 5 THEN "5d"
        ELSE IF required_days <= 30 THEN "1mo"
        ELSE IF required_days <= 90 THEN "3mo"
        ELSE IF required_days <= 180 THEN "6mo"
        ELSE IF required_days <= 365 THEN "1y"
        ELSE IF required_days <= 730 THEN "2y"
        ELSE IF required_days <= 1095 THEN "5y"
        ELSE IF required_days <= 1825 THEN "5y"
        ELSE IF required_days <= 3650 THEN "10y"
        ELSE "max"

\* DataFrame.dropna(): rows holding a NaN go.
dropna(frame) == [frame EXCEPT !.rows = frame.rows - frame.nulls, !.nulls = 0]

\* A DataFrame as validate_data_quality sees it: its number of rows, its
\* column names and, per column, the rows whose value is null.  NoData is the
\* None passed for a DataFrame.
required_columns == {"Open", "High", "Low", "Close", "Volume"}
NoData == [none |-> TRUE]
DataFrame(rows, columns, isnull) ==
    [none |-> FALSE, rows |-> rows, columns |-> columns, isnull |-> isnull]

\* Mutant of validate_data_quality_df: one null value fails the frame.
validate_data_quality_df_any_null(data, min_records) ==
    IF data.none THEN FALSE
    ELSE IF data.rows = 0 \/ data.columns = {} THEN FALSE
    ELSE IF data.rows < min_records THEN FALSE
    ELSE IF ~(required_columns \subseteq data.columns) THEN FALSE
    ELSE IF \E c \in required_columns : data.isnull[c] # {} THEN FALSE
    ELSE TRUE

\* FactorValidator.validate_data_quality on a DataFrame: None or empty, too
\* few rows, a required column missing, a required column null in every row.
validate_data_quality_df(data, min_records) ==
    IF data.none THEN FALSE
    ELSE IF data.rows = 0 \/ data.columns = {} THEN FALSE
    ELSE IF data.rows < min_records THEN FALSE
    ELSE IF ~(required_columns \subseteq data.columns) THEN FALSE
    ELSE IF \E c \in required_columns : data.isnull[c] = 1..data.rows THEN FALSE
    ELSE TRUE

\* The DataFrame of a provider frame: without `cols` the Volume column is
\* missing, and the rows that hold a NaN hold it in Close.
FrameOf(frame) ==
    DataFrame(frame.rows,
              IF frame.cols THEN required_columns ELSE required_columns \ {"Volume"},
              [c \in required_columns |->
                  IF c = "Close" THEN 1..frame.nulls ELSE {}])

\* FactorValidator.validate_data_quality on a provider frame.
validate_data_quality(frame, min_records) ==
    validate_data_quality_df(FrameOf(frame), min_records)

\* An answer fetch_single_stock cannot use: an error, no rows, or rows that
\* fail validate_data_quality after dropna.
Unusable(r) ==
    \/ r.kind = "raise"
    \/ r.rows = 0
    \/ ~validate_data_quality(dropna(r), AsyncMinRecords)

\* The closes of a cleaned frame, oldest first.
Closes(frame) == [k \in 1..frame.rows |-> 100 + frame.seed * k]

\* A score is the exact ratio num / den, den > 0.
Ratio(num, den) == [num |-> num, den |-> den]
ScoreGT(a, b) == a.num * b.den > b.num * a.den
ScoreEQ(a, b) == a.num * b.den = b.num * a.den

\* Series.iloc[k] for a Python index k (negative: from the end); not ok
\* stands for the IndexError of an index out of range.
iloc(closes, k) ==
    IF k >= 0
    THEN IF k + 1 <= Len(closes) THEN [ok |-> TRUE, v |-> closes[k + 1]]
         ELSE [ok |-> FALSE, v |-> 0]
    ELSE IF Len(closes) + k >= 0
         THEN [ok |-> TRUE, v |-> closes[Len(closes) + k + 1]]
         ELSE [ok |-> FALSE, v |-> 0]

\* Mutant of calculate_price_momentum: the start close is always the earliest.
calculate_price_momentum_full_span(closes, lookback_days, period_type, start_date) ==
    IF Len(closes) < 2 THEN Ratio(0, 1)
    ELSE IF closes[1] # 0 THEN Ratio(closes[Len(closes)] - closes[1], closes[1])
    ELSE Ratio(0, 1)

\* MomentumFactors.calculate_price_momentum; an exception inside gives 0.0.
calculate_price_momentum(closes, lookback_days, period_type, start_date) ==
    IF Len(closes) < 2 THEN Ratio(0, 1)
    ELSE LET end_price == closes[Len(closes)]
             start_price ==
                 IF period_type = "date" /\ start_date.set THEN iloc(closes, 0)
                 ELSE IF Len(closes) < lookback_days THEN iloc(closes, 0)
                 ELSE iloc(closes, -lookback_days)
         IN  IF ~start_price.ok THEN Ratio(0, 1)
             ELSE IF start_price.v # 0
             THEN Ratio(end_price - start_price.v, start_price.v)
             ELSE Ratio(0, 1)

\* The volumes of a cleaned frame, oldest first.
Volumes(frame) == [k \in 1..frame.rows |-> 1000 + 10 * frame.seed * k]

\* The sum of fn[a], ..., fn[b].
RECURSIVE SumFrom(_, _, _)
SumFrom(fn, a, b) == IF a > b THEN 0 ELSE fn[a] + SumFrom(fn, a + 1, b)

\* float('nan') as a score: 0 / 0.
NaN == Ratio(0, 0)

\* MomentumFactors.calculate_volume_momentum: the mean of no value is NaN,
\* which is not == 0.
calculate_volume_momentum(volumes, window) ==
    IF Len(volumes) < window THEN Ratio(0, 1)
    ELSE LET hist == Len(volumes) - window
             recent_sum == SumFrom(volumes, hist + 1, Len(volumes))
             historical_sum == SumFrom(volumes, 1, hist)
         IN  IF hist = 0 THEN NaN
             ELSE IF historical_sum = 0 THEN Ratio(0, 1)
             ELSE Ratio(recent_sum * hist - historical_sum * window,
                        historical_sum * window)

\* TechnicalFactors.calculate_rsi, row j: the sums of the gains and of the
\* losses of the window rows up to j; the first row's delta is NaN and counts
\* as 0 in both.
RsiGain(closes, j, window) ==
    SumFrom([k \in 1..Len(closes) |->
                IF k > 1 /\ closes[k] - closes[k - 1] > 0
                THEN closes[k] - closes[k - 1] ELSE 0], j - window + 1, j)
RsiLoss(closes, j, window) ==
    SumFrom([k \in 1..Len(closes) |->
                IF k > 1 /\ closes[k] - closes[k - 1] < 0
                THEN closes[k - 1] - closes[k] ELSE 0], j - window + 1, j)

\* The rows whose RSI is a number: a full window, gains and losses not both 0.
RsiRows(closes, window) ==
    {j \in window..Len(closes) :
        RsiGain(closes, j, window) + RsiLoss(closes, j, window) > 0}

\* MomentumFactors.calculate_rsi_momentum: (latest_rsi - 50) / 50 with
\* rsi = 100 - 100 / (1 + gain / loss), which is 100 * gain / (gain + loss).
calculate_rsi_momentum(closes) ==
    IF RsiRows(closes, RsiWindow) = {} THEN Ratio(0, 1)
    ELSE LET last == CHOOSE j \in RsiRows(closes, RsiWindow) :
                         \A k \in RsiRows(closes, RsiWindow) : k <= j
             gain == RsiGain(closes, last, RsiWindow)
             loss == RsiLoss(closes, last, RsiWindow)
         IN  Ratio(gain - loss, gain + loss)

\* MomentumFactors.calculate_composite_momentum:
\* price * 0.7 + volume * 0.2 + rsi * 0.1, NaN when a term is NaN.
calculate_composite_momentum(frame, lookback_days, period_type, start_date) ==
    LET price == calculate_price_momentum(Closes(frame), lookback_days,
                                          period_type, start_date)
        volume == calculate_volume_momentum(Volumes(frame), VolumeWindow)
        rsi == calculate_rsi_momentum(Closes(frame))
    IN  IF price.den = 0 \/ volume.den = 0 \/ rsi.den = 0 THEN NaN
        ELSE Ratio(7 * price.num * volume.den * rsi.den
                   + 2 * volume.num * price.den * rsi.den
                   + rsi.num * price.den * volume.den,
                   10 * price.den * volume.den * rsi.den)

\* Mutant of validate_stock_data: a long window needs lookback_days closes.
validate_stock_data_strict(rows, win) ==
    IF win.period_type = "date" /\ win.start_date.set
    THEN ~(rows < 2)
    ELSE ~(rows < win.lookback_days)

\* MomentumStrategy._validate_stock_data on a series of `rows` closes.
validate_stock_data(rows, win) ==
    IF win.period_type = "date" /\ win.start_date.set
    THEN ~(rows < 2)
    ELSE IF win.lookback_days >= LongWindow
         THEN ~(rows < MinLongRows)
         ELSE ~(rows < win.lookback_days)

\* A dict keyed by ticker: NoFrame marks an absent key (and stands for the
\* None that fetch_single_stock returns).
NoFrame == [kind |-> "none", rows |-> 0, nulls |-> 0, cols |-> FALSE, seed |-> 0]
TickerNames == {"AAA", "BBB", "CCC"}
EmptyDict == [n \in TickerNames |-> NoFrame]
Keys(d) == {n \in TickerNames : d[n] # NoFrame}

\* Mutant of ScoreItems: the scores are a list, a repeated ticker is scored
\* once per occurrence.
RECURSIVE ScoreItems_list(_, _, _, _)
ScoreItems_list(stock_data, tickers, win, acc) ==
    IF tickers = <<>> THEN acc
    ELSE IF stock_data[Head(tickers)] = NoFrame
    THEN ScoreItems_list(stock_data, Tail(tickers), win, acc)
    ELSE IF ~validate_stock_data(stock_data[Head(tickers)].rows, win)
    THEN ScoreItems_list(stock_data, Tail(tickers), win, acc)
    ELSE ScoreItems_list(stock_data, Tail(tickers), win,
             Append(acc, [ticker |-> Head(tickers),
                          score |-> calculate_price_momentum(
                              Closes(stock_data[Head(tickers)]),
                              win.lookback_days, win.period_type,
                              win.start_date)]))

\* MomentumStrategy.calculate_momentum_scores: the score dict as the sequence
\* of its (ticker, score) items in insertion order.
RECURSIVE ScoreItems(_, _, _, _)
ScoreItems(stock_data, tickers, win, acc) ==
    IF tickers = <<>> THEN acc
    ELSE LET ticker == Head(tickers)
             rest == Tail(tickers)
         IN  IF stock_data[ticker] = NoFrame
             THEN ScoreItems(stock_data, rest, win, acc)
             ELSE IF ~validate_stock_data(stock_data[ticker].rows, win)
             THEN ScoreItems(stock_data, rest, win, acc)
             ELSE IF \E k \in 1..Len(acc) : acc[k].ticker = ticker
             THEN ScoreItems(stock_data, rest, win, acc)
             ELSE ScoreItems(stock_data, rest, win,
                      Append(acc, [ticker |-> ticker,
                                   score |-> calculate_price_momentum(
                                       Closes(stock_data[ticker]),
                                       win.lookback_days, win.period_type,
                                       win.start_date)]))

\* raised: the ValueError of an empty stock_data.
calculate_momentum_scores(stock_data, tickers, win) ==
    IF Keys(stock_data) = {} THEN [raised |-> TRUE, items |-> <<>>]
    ELSE [raised |-> FALSE, items |-> ScoreItems(stock_data, tickers, win, <<>>)]

\* Mutant of InsertDesc: an item goes before the items of equal score.
RECURSIVE InsertDesc_unstable(_, _)
InsertDesc_unstable(x, sorted) ==
    IF sorted = <<>> THEN <<x>>
    ELSE IF ~ScoreGT(Head(sorted).score, x.score) THEN <<x>> \o sorted
    ELSE <<Head(sorted)>> \o InsertDesc_unstable(x, Tail(sorted))

\* sorted(items, key=score, reverse=True): stable, descending.
RECURSIVE InsertDesc(_, _)
InsertDesc(x, sorted) ==
    IF sorted = <<>> THEN <<x>>
    ELSE IF ScoreGT(x.score, Head(sorted).score) THEN <<x>> \o sorted
    ELSE <<Head(sorted)>> \o InsertDesc(x, Tail(sorted))

RECURSIVE SortDesc(_, _)
SortDesc(items, acc) ==
    IF items = <<>> THEN acc
    ELSE SortDesc(Tail(items), InsertDesc(Head(items), acc))

\* Mutant of Prefix: an n past the end is an error (and get_top_stocks
\* answers an error by []).
Prefix_strict(seq, n) == IF n > Len(seq) THEN <<>> ELSE SubSeq(seq, 1, n)

\* seq[:n]; a negative n counts from the end.
Prefix(seq, n) ==
    SubSeq(seq, 1, IF n < 0 THEN (IF Len(seq) + n > 0 THEN Len(seq) + n ELSE 0)
                   ELSE IF n < Len(seq) THEN n ELSE Len(seq))

\* MomentumStrategy.get_top_stocks on a strategy whose momentum_scores is
\* still empty: any exception inside gives [].
get_top_stocks(stock_data, tickers, win, n) ==
    LET scores == calculate_momentum_scores(stock_data, tickers, win)
    IN  IF scores.raised THEN <<>>
        ELSE IF scores.items = <<>> THEN <<>>
        ELSE Prefix(SortDesc(scores.items, <<>>), n)

\* ------------------------------------------------ StockDataLoader, one call
\* Mutant of AttemptEnd: one attempt more than max_retries.
AttemptEnd_one_more(attempt) ==
    IF attempt < max_retries
    THEN [next |-> "retry", value |-> NoFrame]
    ELSE [next |-> "return", value |-> NoFrame]

\* Mutant of AttemptEnd: the last failed attempt raises instead of returning.
AttemptEnd_reraise(attempt) ==
    IF attempt < max_retries - 1
    THEN [next |-> "retry", value |-> NoFrame]
    ELSE [next |-> "raise", value |-> NoFrame]

\* The end of a failed attempt of fetch_single_stock: `continue` while
\* attempts remain, `return None` otherwise.
AttemptEnd(attempt) ==
    IF attempt < max_retries - 1
    THEN [next |-> "retry", value |-> NoFrame]
    ELSE [next |-> "return", value |-> NoFrame]

\* Mutant of PostProcess: the cleaned rows are returned without validation.
PostProcess_no_validation(r, attempt) ==
    IF r.rows = 0 THEN AttemptEnd(attempt)
    ELSE [next |-> "return", value |-> dropna(r)]

\* fetch_single_stock after the raw fetch: empty check, dropna, validation,
\* indicators (add_all_indicators adds columns and keeps the rows).
PostProcess(r, attempt) ==
    IF r.rows = 0 THEN AttemptEnd(attempt)
    ELSE IF ~validate_data_quality(dropna(r), AsyncMinRecords)
    THEN AttemptEnd(attempt)
    ELSE [next |-> "return", value |-> dropna(r)]

\* yf.download(ticker, period=p) and yf.download(ticker, start=s, end=e), the
\* dates as the day numbers that strftime("%Y-%m-%d") keeps.
PeriodQuery(p) == [kind |-> "period", period |-> p]
RangeQuery(s, e) == [kind |-> "range", start |-> s, end |-> e]

\* Mutant of FetchQuery: max history only above 365 days.
FetchQuery_above(phase, win) ==
    IF win.period_type = "date" /\ win.start_date.set
    THEN RangeQuery(win.start_date.day, Now)
    ELSE IF win.lookback_days > LongWindow /\ phase = "main" THEN PeriodQuery("max")
    ELSE PeriodQuery(calculate_period(win.lookback_days))

\* The query a provider call of fetch_single_stock issues.
FetchQuery(phase, win) ==
    IF win.period_type = "date" /\ win.start_date.set
    THEN RangeQuery(win.start_date.day, Now)
    ELSE IF win.lookback_days >= LongWindow /\ phase = "main" THEN PeriodQuery("max")
    ELSE PeriodQuery(calculate_period(win.lookback_days))

\* Mutant of FetchStep: a fallback query that raises is issued again.
FetchStep_fallback_again(r, attempt, phase, win) ==
    IF win.period_type = "date" /\ win.start_date.set
    THEN IF r.kind = "raise" THEN AttemptEnd(attempt) ELSE PostProcess(r, attempt)
    ELSE IF win.lookback_days >= LongWindow /\ phase = "main"
    THEN IF r.kind = "raise" THEN [next |-> "fallback", value |-> NoFrame]
         ELSE IF r.rows < win.lookback_days /\ ~(r.rows >= MinLongRows)
         THEN AttemptEnd(attempt)
         ELSE PostProcess(r, attempt)
    ELSE IF r.kind = "raise"
    THEN IF phase = "fallback" THEN [next |-> "fallback", value |-> NoFrame]
         ELSE AttemptEnd(attempt)
    ELSE PostProcess(r, attempt)

\* One provider call of fetch_single_stock answered by r: retry, return, or
\* go on to the fallback query of the same attempt.
FetchStep(r, attempt, phase, win) ==
    IF win.period_type = "date" /\ win.start_date.set
    THEN IF r.kind = "raise" THEN AttemptEnd(attempt) ELSE PostProcess(r, attempt)
    ELSE IF win.lookback_days >= LongWindow /\ phase = "main"
    THEN IF r.kind = "raise" THEN [next |-> "fallback", value |-> NoFrame]
         ELSE IF r.rows < win.lookback_days /\ ~(r.rows >= MinLongRows)
         THEN AttemptEnd(attempt)
         ELSE PostProcess(r, attempt)
    ELSE IF r.kind = "raise" THEN AttemptEnd(attempt) ELSE PostProcess(r, attempt)

\* fetch_stocks_sync on the provider's answer to the one multi-ticker query:
\* the processed dict, or raised when the call raised, returned nothing, or
\* no ticker passed validation.
SyncProcessed(r, tickers) ==
    [n \in TickerNames |->
        IF n \notin Names(tickers) THEN NoFrame
        ELSE IF r.frames[n] = NoFrame THEN NoFrame
        ELSE IF ~validate_data_quality(dropna(r.frames[n]), DefaultMinRecords)
        THEN NoFrame
        ELSE dropna(r.frames[n])]

\* Mutant of fetch_stocks_sync: an empty result is returned, not raised.
fetch_stocks_sync_no_raise(r, tickers) ==
    IF r.kind = "raise" THEN [raised |-> TRUE, data |-> EmptyDict]
    ELSE [raised |-> FALSE, data |-> SyncProcessed(r, tickers)]

fetch_stocks_sync(r, tickers) ==
    IF r.kind = "raise" THEN [raised |-> TRUE, data |-> EmptyDict]
    ELSE IF \A n \in TickerNames : r.frames[n].rows = 0
    THEN [raised |-> TRUE, data |-> EmptyDict]
    ELSE IF Keys(SyncProcessed(r, tickers)) = {}
    THEN [raised |-> TRUE, data |-> EmptyDict]
    ELSE [raised |-> FALSE, data |-> SyncProcessed(r, tickers)]

\* The answers of the provider to the multi-ticker query.
SyncFrames == {NoFrame, Frame(0, 0, TRUE, 0), Frame(10, 0, TRUE, 1),
               Frame(30, 0, TRUE, 0)}
SyncRaise == [kind |-> "raise", frames |-> EmptyDict]
SyncResponses ==
    {SyncRaise} \cup {[kind |-> "data", frames |-> f] : f \in [TickerNames -> SyncFrames]}
\* The answers to a query for the tickers of a list: no frame for another.
SyncResponsesFor(tickers) ==
    {r \in SyncResponses :
        r.kind = "data" => \A n \in TickerNames \ Names(tickers) : r.frames[n] = NoFrame}
SyncResponseFailed(r) ==
    r.kind = "raise" \/ \A n \in TickerNames : r.frames[n].rows = 0

\* ------------------------------------------------------------ BacktestResult
Pending == [kind |-> "pending"]
NoneRet == [kind |-> "None"]
BacktestResult(period, success, chart_path, top_stocks, error_message) ==
    [kind |-> "result", period |-> period, success |-> success,
     chart_path |-> chart_path, top_stocks |-> top_stocks,
     error_message |-> error_message]

\* Mutant of FailedOutcome: the except clause reports and returns nothing.
FailedOutcome_no_return(period, error) == NoneRet

\* run_single_backtest, the except clause: the failed outcome of an exception.
FailedOutcome(period, error) ==
    BacktestResult(period, FALSE, "None", <<>>, error)

\* Mutant of Outcome: with no selection the function falls off its end.
Outcome_silent(period, top_stocks, saved) ==
    IF top_stocks # <<>> /\ saved
    THEN BacktestResult(period, TRUE, "chart", top_stocks, "None")
    ELSE NoneRet

\* Mutant of Outcome: a success carries the first entry of the selection only.
Outcome_first_only(period, top_stocks, saved) ==
    IF top_stocks # <<>>
    THEN IF saved
         THEN BacktestResult(period, TRUE, "chart", <<Head(top_stocks)>>, "None")
         ELSE NoneRet
    ELSE BacktestResult(period, FALSE, "None", <<>>, "NoRecommendation")

\* Mutant of Outcome: the selection is not tested before success is reported.
Outcome_unchecked(period, top_stocks, saved) ==
    IF saved THEN BacktestResult(period, TRUE, "chart", top_stocks, "None")
    ELSE BacktestResult(period, FALSE, "None", <<>>, "NoRecommendation")

\* run_single_backtest from get_top_stocks on: success when there is a
\* selection and the chart was saved, None (the function falls off its end)
\* when the chart was not saved, the no-recommendation failure otherwise.
Outcome(period, top_stocks, saved) ==
    IF top_stocks # <<>>
    THEN IF saved THEN BacktestResult(period, TRUE, "chart", top_stocks, "None")
         ELSE NoneRet
    ELSE BacktestResult(period, FALSE, "None", <<>>, "NoRecommendation")

\* ------------------------------------------------------ BatchBacktestEngine
\* Mutant of gather: the values in the order the tasks finished.
gather_by_completion(rets, done_order) ==
    [k \in 1..Len(rets) |-> rets[done_order[k]]]

\* asyncio.gather(*tasks): the tasks' values in the order of the task list.
gather(rets, done_order) == [i \in 1..Len(rets) |-> rets[i]]

\* run_batch_backtest, the loop over the gathered values: an exception
\* becomes the failed outcome of periods[i], anything else is kept.
ProcessResult(result, period) ==
    IF result.kind = "exception" THEN FailedOutcome(period, result.error)
    ELSE result

\* get_summary: raised is the AttributeError of reading .success of a None.
NoSummary == [kind |-> "none"]
CountSuccess(res, flag) ==
    Cardinality({i \in 1..Len(res) : res[i].success = flag})
get_summary(res) ==
    IF \E i \in 1..Len(res) : res[i].kind # "result"
    THEN [kind |-> "summary", raised |-> TRUE, total_tests |-> 0,
          successful_tests |-> 0, failed_tests |-> 0, success_rate |-> Ratio(0, 1)]
    ELSE [kind |-> "summary", raised |-> FALSE, total_tests |-> Len(res),
          successful_tests |-> CountSuccess(res, TRUE),
          failed_tests |-> CountSuccess(res, FALSE),
          success_rate |-> IF Len(res) # 0
                           THEN Ratio(CountSuccess(res, TRUE), Len(res))
                           ELSE Ratio(0, 1)]

\* The sum of two scores.
RatioAdd(a, b) == Ratio(a.num * b.den + b.num * a.den, a.den * b.den)

\* sum(score for _, score in top_stocks) / len(top_stocks).
RECURSIVE SumScores(_)
SumScores(top_stocks) ==
    IF top_stocks = <<>> THEN Ratio(0, 1)
    ELSE RatioAdd(Head(top_stocks).score, SumScores(Tail(top_stocks)))
AvgScore(top_stocks) ==
    Ratio(SumScores(top_stocks).num, SumScores(top_stocks).den * Len(top_stocks))

\* get_best_performers, the list period_scores: an entry per result that
\* succeeded with a selection, in the order of the results.
RECURSIVE PeriodScores(_)
PeriodScores(res) ==
    IF res = <<>> THEN <<>>
    ELSE IF Head(res).success /\ Head(res).top_stocks # <<>>
    THEN <<[period |-> Head(res).period, top_stocks |-> Head(res).top_stocks,
            score |-> AvgScore(Head(res).top_stocks)]>> \o PeriodScores(Tail(res))
    ELSE PeriodScores(Tail(res))

\* BatchBacktestEngine.get_best_performers(top_n) on self.results = res;
\* raised is the AttributeError of reading .success of a None.
get_best_performers(res, n) ==
    IF \E r \in 1..Len(res) : res[r].kind # "result"
    THEN [raised |-> TRUE, best |-> <<>>]
    ELSE [raised |-> FALSE,
          best |-> [k \in 1..Len(Prefix(SortDesc(PeriodScores(res), <<>>), n)) |->
                       [period |-> Prefix(SortDesc(PeriodScores(res), <<>>), n)[k].period,
                        top_stocks |->
                            Prefix(SortDesc(PeriodScores(res), <<>>), n)[k].top_stocks]]]

\* ----------------------------------------------------------- BacktestAnalyzer
\* A ticker that is not a key of stock_performance.
NoPerf == [appearances |-> 0, total_score |-> Ratio(0, 1), periods |-> <<>>,
           rankings |-> <<>>]

\* next(i + 1 for i, (t, _) in enumerate(top_stocks) if t == ticker).
FirstRank(top_stocks, ticker) ==
    CHOOSE k \in 1..Len(top_stocks) :
        /\ top_stocks[k].ticker = ticker
        /\ \A j \in 1..(k - 1) : top_stocks[j].ticker # ticker

\* analyze_stock_performance, the loops over the results and their
\* selections, from entry k of result r on.
RECURSIVE Tally(_, _, _, _)
Tally(res, r, k, perf) ==
    IF r > Len(res) THEN perf
    ELSE IF ~(res[r].success /\ res[r].top_stocks # <<>>)
    THEN Tally(res, r + 1, 1, perf)
    ELSE IF k > Len(res[r].top_stocks) THEN Tally(res, r + 1, 1, perf)
    ELSE LET item == res[r].top_stocks[k]
         IN  Tally(res, r, k + 1,
                   [perf EXCEPT ![item.ticker] =
                       [appearances |-> @.appearances + 1,
                        total_score |-> RatioAdd(@.total_score, item.score),
                        periods |-> Append(@.periods, res[r].period),
                        rankings |-> Append(@.rankings,
                                            FirstRank(res[r].top_stocks,
                                                      item.ticker))]])

\* Mutant of Succeeded: every outcome counts, the failed ones too.
Succeeded_all(res) == Len(res)

\* len([r for r in results if r.success]).
Succeeded(res) == Cardinality({r \in 1..Len(res) : res[r].success})

\* BacktestAnalyzer.analyze_stock_performance: the statistics of the
\* tickers that are keys; raised is the AttributeError of a None entry.
analyze_stock_performance(res) ==
    IF \E r \in 1..Len(res) : res[r].kind # "result"
    THEN [raised |-> TRUE, perf |-> [n \in TickerNames |-> NoPerf]]
    ELSE LET perf == Tally(res, 1, 1, [n \in TickerNames |-> NoPerf])
         IN  [raised |-> FALSE,
              perf |-> [n \in TickerNames |->
                  IF perf[n].appearances = 0 THEN NoPerf
                  ELSE [appearances |-> perf[n].appearances,
                        total_score |-> perf[n].total_score,
                        periods |-> perf[n].periods,
                        rankings |-> perf[n].rankings,
                        avg_score |->
                            Ratio(perf[n].total_score.num,
                                  perf[n].total_score.den * perf[n].appearances),
                        avg_ranking |->
                            IF perf[n].rankings # <<>>
                            THEN Ratio(SumFrom(perf[n].rankings, 1,
                                               Len(perf[n].rankings)),
                                       Len(perf[n].rankings))
                            ELSE Ratio(0, 1),
                        consistency |->
                            Ratio(perf[n].appearances, Succeeded(res))]]]

\* --------------------------------------------------------------------- state
VARIABLES
    periods,        \* config.periods
    tickers,        \* config.tickers: the ticker list handed to the tasks
    observed,       \* the histories of the fetches are recorded
    call,           \* a direct call of a function: its name and arguments
    returned,       \* what the direct call returned
    max_workers,    \* config.max_workers
    top_n,          \* config.top_n
    bpc,            \* run_batch_backtest: "idle", "gathering", "done"
    results,        \* engine.results
    summary,        \* what the caller's latest get_summary call returned
    pc,             \* per task: "created", "awaiting", "sync_call", "done"
    win,            \* per task: the strategy's resolved window
    fut,            \* per task and ticker: the executor future of its fetch
    awaitIdx,       \* per task: the ticker whose future the task awaits
    processed_data, \* per task: the dict fetch_stocks_async collects
    stock_data,     \* per task: strategy.stock_data
    ret,            \* per task: what run_single_backtest returned
    completion,     \* the tasks in the order they finished
    anyOk,          \* some provider call returned rows
    called,         \* per task: a provider call was issued for it
    asyncFailed,    \* per task: fetch_stocks_async raised
    syncFailed,     \* per task: fetch_stocks_sync raised
    scored,         \* per task: get_top_stocks ran
    strategy        \* a MomentumStrategy that a caller uses directly

vars == <<strategy, periods, tickers, observed, call, returned, max_workers, top_n, bpc, results, summary, pc, win, fut,
          awaitIdx, processed_data, stock_data, ret, completion, anyOk, called,
          asyncFailed, syncFailed, scored>>

\* The batches tried: up to MaxTasks distinct periods, in the order of PeriodList.
Batches ==
    LET picks == {p \in UNION {[1..n -> 1..Len(PeriodList)] : n \in 1..MaxTasks} :
                     \A k \in 1..(Len(p) - 1) : p[k] < p[k + 1]}
    IN  {[k \in 1..Len(p) |-> PeriodList[p[k]]] : p \in picks}

TaskIds == 1..Len(periods)
\* No MomentumStrategy is used directly.
NoStrategy == [kind |-> "none"]
TickerIdx == 1..Len(tickers)
\* The future of a fetch: bad while every answer of the provider so far was
\* unusable, queries the provider calls issued so far.
IdleFut == [state |-> "idle", attempt |-> 0, phase |-> "main", result |-> NoFrame,
            bad |-> TRUE, queries |-> <<>>]
\* No direct call was made.
NoCall == [fn |-> "none"]
NoReturn == [done |-> FALSE]
NoWindow == [ok |-> FALSE, lookback_days |-> 0, start_date |-> NoDate,
             period_type |-> "invalid"]

\* An engine constructed over one of the batches and one of the ticker lists,
\* the fetch histories recorded or not.
Start(batches, lists, history) ==
    /\ strategy = NoStrategy
    /\ periods \in batches
    /\ tickers \in lists
    /\ observed = history
    /\ call = NoCall
    /\ returned = NoReturn
    /\ max_workers \in 1..MaxWorkers
    /\ top_n \in 1..MaxTopN
    /\ bpc = "idle"
    /\ results = <<>>
    /\ summary = NoSummary
    /\ pc = [i \in TaskIds |-> "none"]
    /\ win = [i \in TaskIds |-> NoWindow]
    /\ fut = [i \in TaskIds |-> [t \in TickerIdx |-> IdleFut]]
    /\ awaitIdx = [i \in TaskIds |-> 0]
    /\ processed_data = [i \in TaskIds |-> EmptyDict]
    /\ stock_data = [i \in TaskIds |-> EmptyDict]
    /\ ret = [i \in TaskIds |-> Pending]
    /\ completion = <<>>
    /\ anyOk = FALSE
    /\ called = [i \in TaskIds |-> FALSE]
    /\ asyncFailed = [i \in TaskIds |-> FALSE]
    /\ syncFailed = [i \in TaskIds |-> FALSE]
    /\ scored = [i \in TaskIds |-> FALSE]

\* A batch of up to MaxTasks periods over the configured ticker list.
Init == Start(Batches, {Tickers}, FALSE)

\* One task, over each of the ticker lists, the fetch histories recorded.
InitFetch ==
    Start({<<PeriodList[k]>> : k \in 1..Len(PeriodList)}, TickerLists, TRUE)

\* The event loop is free: no task sits in the blocking fetch_stocks_sync.
LoopFree == \A j \in TaskIds : pc[j] # "sync_call"

\* Mutant of TaskDone: a failed task cancels the siblings still running.
TaskDone_cancelling(i, r) ==
    /\ pc' = [j \in TaskIds |->
                 IF j = i \/ (r.kind = "result" /\ ~r.success) THEN "done" ELSE pc[j]]
    /\ ret' = [j \in TaskIds |->
                 IF j = i THEN r
                 ELSE IF r.kind = "result" /\ ~r.success /\ pc[j] # "done"
                 THEN FailedOutcome(periods[j], "Cancelled")
                 ELSE ret[j]]
    /\ completion' = Append(completion, i)

\* run_single_backtest returns r: the task is done.
TaskDone(i, r) ==
    /\ pc' = [pc EXCEPT ![i] = "done"]
    /\ ret' = [ret EXCEPT ![i] = r]
    /\ completion' = Append(completion, i)

\* Mutant of AllFailed: an empty mapping is returned as it is.
AllFailed_never(processed) == FALSE

\* fetch_stocks_async after its loop: `if not processed_data: raise`.
AllFailed(processed) == Keys(processed) = {}

\* Mutant of FutureOver: an await returns while the fetch is still running.
FutureOver_eager(f) == f.state \in {"done", "raised", "running"}

\* `await task` returns: the fetch returned, or raised (caught and skipped).
FutureOver(f) == f.state \in {"done", "raised"}

\* run_single_backtest from get_top_stocks to its return.
Finish(i, data, saved) ==
    /\ stock_data' = [stock_data EXCEPT ![i] = data]
    /\ scored' = [scored EXCEPT ![i] = TRUE]
    /\ TaskDone(i, Outcome(periods[i],
                           get_top_stocks(data, tickers, win[i], top_n), saved))

\* run_batch_backtest up to its await: one task per period.
BatchStart ==
    /\ bpc = "idle"
    /\ bpc' = "gathering"
    /\ pc' = [i \in TaskIds |-> "created"]
    /\ summary' = NoSummary
    /\ UNCHANGED <<strategy, periods, tickers, observed, call, returned, max_workers,
                   top_n, results, win, fut, awaitIdx,
                   processed_data, stock_data, ret, completion, anyOk, called,
                   asyncFailed, syncFailed, scored>>

\* A task's first run: MomentumStrategy(...) and, if the period resolves,
\* fetch_stocks_async up to its first await, every ticker submitted.  With no
\* ticker there is nothing to await: fetch_stocks_async runs to its end.
TaskStart(i) ==
    /\ bpc = "gathering"
    /\ pc[i] = "created"
    /\ LoopFree
    /\ \A j \in TaskIds : j < i => pc[j] # "created"
    /\ LET w == parse_lookback_period(periods[i])
       IN  IF ~w.ok
           THEN /\ TaskDone(i, FailedOutcome(periods[i], "InvalidSpec"))
                /\ UNCHANGED <<win, fut, awaitIdx, stock_data, asyncFailed, scored>>
           ELSE /\ win' = [win EXCEPT ![i] = w]
                /\ fut' = [fut EXCEPT ![i] =
                              [t \in TickerIdx |-> [IdleFut EXCEPT !.state = "queued"]]]
                /\ awaitIdx' = [awaitIdx EXCEPT ![i] = 1]
                /\ IF tickers # <<>>
                   THEN /\ pc' = [pc EXCEPT ![i] = "awaiting"]
                        /\ UNCHANGED <<ret, completion, stock_data, asyncFailed,
                                       scored>>
                   ELSE IF AllFailed(EmptyDict)
                   THEN /\ asyncFailed' = [asyncFailed EXCEPT ![i] = TRUE]
                        /\ pc' = [pc EXCEPT ![i] = "sync_call"]
                        /\ UNCHANGED <<ret, completion, stock_data, scored>>
                   ELSE /\ \E saved \in BOOLEAN : Finish(i, EmptyDict, saved)
                        /\ UNCHANGED asyncFailed
    /\ UNCHANGED <<strategy, periods, tickers, observed, call, returned, max_workers,
                   top_n, bpc,
                   results, summary, processed_data, anyOk, called, syncFailed>>

\* ThreadPoolExecutor(max_workers): a worker thread is free for task i.
Running(i) == {t \in TickerIdx : fut[i][t].state = "running"}
\* Mutant of WorkerFree: a thread per submitted fetch.
WorkerFree_unbounded(i) == TRUE

WorkerFree(i) == Cardinality(Running(i)) < max_workers

\* A worker thread takes the oldest queued fetch of task i.
WorkerStart(i, t) ==
    /\ fut[i][t].state = "queued"
    /\ \A u \in TickerIdx : u < t => fut[i][u].state # "queued"
    /\ WorkerFree(i)
    /\ fut' = [fut EXCEPT ![i][t].state = "running"]
    /\ UNCHANGED <<strategy, periods, tickers, observed, call, returned, max_workers,
                   top_n, bpc, results, summary, pc, win,
                   awaitIdx, processed_data, stock_data, ret, completion, anyOk,
                   called, asyncFailed, syncFailed, scored>>

\* One provider call of fetch_single_stock on a worker thread.
ProviderCall(i, t) ==
    /\ fut[i][t].state = "running"
    /\ \E r \in Responses :
          LET f == fut[i][t]
              st == FetchStep(r, f.attempt, f.phase, win[i])
              seen == IF ~observed THEN f
                      ELSE [f EXCEPT !.bad = @ /\ Unusable(r),
                                     !.queries =
                                         Append(@, [attempt |-> f.attempt,
                                                    phase |-> f.phase,
                                                    query |-> FetchQuery(f.phase,
                                                                         win[i]),
                                                    raised |-> r.kind = "raise"])]
          IN  /\ fut' = [fut EXCEPT ![i][t] =
                    IF st.next = "fallback" THEN [seen EXCEPT !.phase = "fallback"]
                    ELSE IF st.next = "retry"
                    THEN [seen EXCEPT !.attempt = @ + 1, !.phase = "main"]
                    ELSE IF st.next = "raise"
                    THEN [seen EXCEPT !.state = "raised"]
                    ELSE [seen EXCEPT !.state = "done", !.result = st.value]]
              /\ anyOk' = (anyOk \/ ~ResponseFailed(r))
    /\ called' = [called EXCEPT ![i] = TRUE]
    /\ UNCHANGED <<strategy, periods, tickers, observed, call, returned, max_workers,
                   top_n, bpc, results, summary, pc, win,
                   awaitIdx, processed_data, stock_data, ret, completion,
                   asyncFailed, syncFailed, scored>>

\* Mutant of Collect: the dict keeps the latest result only.
Collect_last_only(data, ticker, result) ==
    IF result # NoFrame THEN [EmptyDict EXCEPT ![ticker] = result] ELSE data

\* Mutant of Collect: a failed ticker drops what was collected so far.
Collect_cancelling(data, ticker, result) ==
    IF result # NoFrame THEN [data EXCEPT ![ticker] = result] ELSE EmptyDict

\* fetch_stocks_async, one turn of the collecting loop: a result that is
\* not None is stored under its ticker.
Collect(data, ticker, result) ==
    IF result # NoFrame THEN [data EXCEPT ![ticker] = result] ELSE data

\* The awaited future is done and it is not the last one.
AwaitTicker(i) ==
    /\ pc[i] = "awaiting"
    /\ LoopFree
    /\ awaitIdx[i] < Len(tickers)
    /\ FutureOver(fut[i][awaitIdx[i]])
    /\ processed_data' = [processed_data EXCEPT ![i] =
           Collect(@, tickers[awaitIdx[i]], fut[i][awaitIdx[i]].result)]
    /\ awaitIdx' = [awaitIdx EXCEPT ![i] = @ + 1]
    /\ UNCHANGED <<strategy, periods, tickers, observed, call, returned, max_workers,
                   top_n, bpc, results, summary, pc, win,
                   fut, stock_data, ret, completion, anyOk, called, asyncFailed,
                   syncFailed, scored>>

\* The last future is done and some ticker has data: fetch_stocks_async
\* returns and the task runs to its end (chart saved or not).
AwaitLastData(i) ==
    /\ pc[i] = "awaiting"
    /\ LoopFree
    /\ awaitIdx[i] = Len(tickers)
    /\ FutureOver(fut[i][awaitIdx[i]])
    /\ LET data == Collect(processed_data[i], tickers[awaitIdx[i]],
                           fut[i][awaitIdx[i]].result)
       IN  /\ ~AllFailed(data)
           /\ processed_data' = [processed_data EXCEPT ![i] = data]
           /\ \E saved \in BOOLEAN : Finish(i, data, saved)
    /\ awaitIdx' = [awaitIdx EXCEPT ![i] = @ + 1]
    /\ UNCHANGED <<strategy, periods, tickers, observed, call, returned, max_workers,
                   top_n, bpc, results, summary, win, fut,
                   anyOk, called, asyncFailed, syncFailed>>

\* The last future is done and no ticker has data: fetch_stocks_async
\* raises, run_single_backtest falls back to the blocking fetch_data_sync.
AwaitLastEmpty(i) ==
    /\ pc[i] = "awaiting"
    /\ LoopFree
    /\ awaitIdx[i] = Len(tickers)
    /\ FutureOver(fut[i][awaitIdx[i]])
    /\ LET data == Collect(processed_data[i], tickers[awaitIdx[i]],
                           fut[i][awaitIdx[i]].result)
       IN  /\ AllFailed(data)
           /\ processed_data' = [processed_data EXCEPT ![i] = data]
    /\ awaitIdx' = [awaitIdx EXCEPT ![i] = @ + 1]
    /\ asyncFailed' = [asyncFailed EXCEPT ![i] = TRUE]
    /\ pc' = [pc EXCEPT ![i] = "sync_call"]
    /\ UNCHANGED <<strategy, periods, tickers, observed, call, returned, max_workers,
                   top_n, bpc, results, summary, win, fut,
                   stock_data, ret, completion, anyOk, called, syncFailed, scored>>

\* The provider answers the multi-ticker query of fetch_stocks_sync; the
\* task runs to its end.
SyncReturn(i) ==
    /\ pc[i] = "sync_call"
    /\ \E r \in SyncResponsesFor(tickers) :
          /\ anyOk' = (anyOk \/ ~SyncResponseFailed(r))
          /\ IF fetch_stocks_sync(r, tickers).raised
             THEN /\ syncFailed' = [syncFailed EXCEPT ![i] = TRUE]
                  /\ TaskDone(i, FailedOutcome(periods[i], "DataFetchFailed"))
                  /\ UNCHANGED <<stock_data, scored>>
             ELSE /\ \E saved \in BOOLEAN :
                        Finish(i, fetch_stocks_sync(r, tickers).data, saved)
                  /\ UNCHANGED syncFailed
    /\ called' = [called EXCEPT ![i] = TRUE]
    /\ UNCHANGED <<strategy, periods, tickers, observed, call, returned, max_workers,
                   top_n, bpc, results, summary, win, fut,
                   awaitIdx, processed_data, asyncFailed>>

\* gather returns once every task is done; the results are processed.  The
\* tasks' strategies and executors are gone by then.
BatchCollect ==
    /\ bpc = "gathering"
    /\ \A i \in TaskIds : pc[i] = "done"
    /\ results' = [i \in TaskIds |->
                      ProcessResult(gather(ret, completion)[i], periods[i])]
    /\ bpc' = "done"
    /\ win' = [i \in TaskIds |-> NoWindow]
    /\ fut' = [i \in TaskIds |-> [t \in TickerIdx |-> IdleFut]]
    /\ awaitIdx' = [i \in TaskIds |-> 0]
    /\ processed_data' = [i \in TaskIds |-> EmptyDict]
    /\ stock_data' = [i \in TaskIds |-> EmptyDict]
    /\ UNCHANGED <<strategy, periods, tickers, observed, call, returned, max_workers,
                   top_n, summary, pc, ret, completion,
                   anyOk, called, asyncFailed, syncFailed, scored>>

\* The caller asks for the summary, before or after the batch.
GetSummary ==
    /\ bpc \in {"idle", "done"}
    /\ summary = NoSummary
    /\ summary' = get_summary(results)
    /\ UNCHANGED <<strategy, periods, tickers, observed, call, returned, max_workers,
                   top_n, bpc, results, pc, win, fut,
                   awaitIdx, processed_data, stock_data, ret, completion, anyOk,
                   called, asyncFailed, syncFailed, scored>>

Next ==
    \/ BatchStart
    \/ \E i \in TaskIds : TaskStart(i)
    \/ \E i \in TaskIds : \E t \in TickerIdx : WorkerStart(i, t)
    \/ \E i \in TaskIds : \E t \in TickerIdx : ProviderCall(i, t)
    \/ \E i \in TaskIds : AwaitTicker(i)
    \/ \E i \in TaskIds : AwaitLastData(i)
    \/ \E i \in TaskIds : AwaitLastEmpty(i)
    \/ \E i \in TaskIds : SyncReturn(i)
    \/ BatchCollect
    \/ GetSummary

Spec == Init /\ [][Next]_vars

\* A single run_single_backtest call over each ticker list.
SpecFetch == InitFetch /\ [][Next]_vars

\* The steps the program takes by itself: the event loop runs every callback
\* that is ready and a free worker thread takes the next queued fetch.
ProgramStep ==
    \/ BatchStart
    \/ \E i \in TaskIds : TaskStart(i)
    \/ \E i \in TaskIds : \E t \in TickerIdx : WorkerStart(i, t)
    \/ \E i \in TaskIds : AwaitTicker(i)
    \/ \E i \in TaskIds : AwaitLastData(i)
    \/ \E i \in TaskIds : AwaitLastEmpty(i)
    \/ BatchCollect
    \/ GetSummary

\* The steps that wait for the provider: yf.download(ticker, ...) in a worker
\* thread and yf.download(...) in fetch_stocks_sync return or raise when the
\* provider answers.  The calls are made without a timeout and nothing in the
\* program ends one of them.
ProviderStep ==
    \/ \E i \in TaskIds : \E t \in TickerIdx : ProviderCall(i, t)
    \/ \E i \in TaskIds : SyncReturn(i)

\* The program is scheduled fairly; the provider may never answer.
SpecFetchFair == InitFetch /\ [][Next]_vars /\ WF_vars(ProgramStep)

\* ------------------------------------------------------------- direct calls
\* No engine is at work: the state around a direct call of a function.
NoEngine ==
    /\ strategy = NoStrategy
    /\ periods = <<>>
    /\ tickers = <<>>
    /\ observed = FALSE
    /\ max_workers = 1
    /\ top_n = 1
    /\ bpc = "idle"
    /\ results = <<>>
    /\ summary = NoSummary
    /\ pc = <<>>
    /\ win = <<>>
    /\ fut = <<>>
    /\ awaitIdx = <<>>
    /\ processed_data = <<>>
    /\ stock_data = <<>>
    /\ ret = <<>>
    /\ completion = <<>>
    /\ anyOk = FALSE
    /\ called = <<>>
    /\ asyncFailed = <<>>
    /\ syncFailed = <<>>
    /\ scored = <<>>

\* The direct call returns v.
Return(v) ==
    /\ ~returned.done
    /\ returned' = [done |-> TRUE, value |-> v]
    /\ UNCHANGED <<strategy, periods, tickers, observed, call, max_workers, top_n, bpc,
                   results, summary, pc, win, fut, awaitIdx, processed_data,
                   stock_data, ret, completion, anyOk, called, asyncFailed,
                   syncFailed, scored>>

\* The strategies get_top_stocks is called on: the ticker list of the last
\* fetch, the fetched series of some of its tickers, the window and top_n.
RankFrames ==
    {NoFrame} \cup {Frame(r, 0, TRUE, s) : r \in {10, 30}, s \in {-1, 0, 1}}
RankTickerLists ==
    {<<"AAA", "BBB", "CCC">>, <<"CCC", "BBB", "AAA">>, <<"BBB", "CCC", "AAA">>,
     <<"AAA", "AAA", "BBB">>, <<>>}
RankWindows ==
    {parse_lookback_period(IntPeriod(5)), parse_lookback_period(IntPeriod(20)),
     parse_lookback_period(StrPeriod("2020-01-01"))}
GetTopStocksCalls ==
    {[fn |-> "get_top_stocks", stock_data |-> d, tickers |-> l, win |-> w,
      top_n |-> n] :
        d \in [TickerNames -> RankFrames], l \in RankTickerLists,
        w \in RankWindows, n \in 0..MaxRankN}

InitRank ==
    /\ NoEngine
    /\ call \in {c \in GetTopStocksCalls : Keys(c.stock_data) \subseteq Names(c.tickers)}
    /\ returned = NoReturn

\* strategy.get_top_stocks() on a strategy that has not scored yet.
CallGetTopStocks ==
    /\ call.fn = "get_top_stocks"
    /\ Return(get_top_stocks(call.stock_data, call.tickers, call.win, call.top_n))

SpecRank == InitRank /\ [][CallGetTopStocks]_vars

\* The lookback periods a strategy is constructed with directly: day counts,
\* zero and negative ones included, date strings of the past, of today and
\* of the future, a string that is no date, and a float.
ResolveCalls ==
    {[fn |-> "parse_lookback_period", period |-> p] :
        p \in {IntPeriod(n) : n \in (-3)..MaxDays}
              \cup {StrPeriod(t) : t \in {"2020-01-01", "today", "2027-01-01",
                                        "garbage", ""}}
              \cup {FloatPeriod}}

InitResolve ==
    /\ NoEngine
    /\ call \in ResolveCalls
    /\ returned = NoReturn

\* MomentumStrategy(lookback_period=...): _parse_lookback_period.
CallParseLookbackPeriod ==
    /\ call.fn = "parse_lookback_period"
    /\ Return(parse_lookback_period(call.period))

SpecResolve == InitResolve /\ [][CallParseLookbackPeriod]_vars

\* The outcomes analysed directly: succeeded ones with the selections a
\* task can return, failed ones; and the lists of up to MaxResults of them.
Item(ticker, num, den) == [ticker |-> ticker, score |-> Ratio(num, den)]
AnalyzeOutcomes ==
    {BacktestResult(IntPeriod(20), TRUE, "chart",
                    <<Item("AAA", 1, 10), Item("BBB", 1, 20)>>, "None"),
     BacktestResult(IntPeriod(365), TRUE, "chart", <<Item("BBB", 3, 10)>>, "None"),
     BacktestResult(StrPeriod("2020-01-01"), TRUE, "chart",
                    <<Item("BBB", 1, 10), Item("AAA", 1, 10)>>, "None"),
     FailedOutcome(IntPeriod(20), "DataFetchFailed"),
     FailedOutcome(StrPeriod("garbage"), "InvalidSpec")}
AnalyzeCalls ==
    {[fn |-> "analyze_stock_performance", results |-> l] :
        l \in UNION {[1..n -> AnalyzeOutcomes] : n \in 0..MaxResults}}

InitAnalyze ==
    /\ NoEngine
    /\ call \in AnalyzeCalls
    /\ returned = NoReturn

\* BacktestAnalyzer.analyze_stock_performance(results).
CallAnalyzeStockPerformance ==
    /\ call.fn = "analyze_stock_performance"
    /\ Return(analyze_stock_performance(call.results))

SpecAnalyze == InitAnalyze /\ [][CallAnalyzeStockPerformance]_vars

\* The result lists get_best_performers is called on: what a batch leaves in
\* engine.results, the None of a task that returned nothing included.
BestCalls ==
    {[fn |-> "get_best_performers", results |-> l, top_n |-> n] :
        l \in UNION {[1..m -> AnalyzeOutcomes \cup {NoneRet}] : m \in 0..MaxResults},
        n \in 0..MaxRankN}

InitBest ==
    /\ NoEngine
    /\ call \in BestCalls
    /\ returned = NoReturn

\* engine.get_best_performers(top_n).
CallGetBestPerformers ==
    /\ call.fn = "get_best_performers"
    /\ Return(get_best_performers(call.results, call.top_n))

SpecBest == InitBest /\ [][CallGetBestPerformers]_vars

\* The lookback lengths calculate_period is called on.
PeriodDays == (-MaxNegativeDays)..MaxPeriodDays
PeriodCalls == {[fn |-> "calculate_period", lookback_days |-> n] : n \in PeriodDays}

InitPeriod ==
    /\ NoEngine
    /\ call \in PeriodCalls
    /\ returned = NoReturn

\* DataPeriodCalculator.calculate_period(lookback_days).
CallCalculatePeriod ==
    /\ call.fn = "calculate_period"
    /\ Return(calculate_period(call.lookback_days))

SpecPeriod == InitPeriod /\ [][CallCalculatePeriod]_vars

\* The Close columns calculate_price_momentum is called on (NaN dropped).
CloseChoices == {0, 100, 110, 121}
SeriesOver(values) == UNION {[1..n -> values] : n \in 0..MaxSeries}
PriceMomentumCalls ==
    {[fn |-> "calculate_price_momentum", closes |-> c, lookback_days |-> l,
      period_type |-> m, start_date |-> d] :
        c \in SeriesOver(CloseChoices), l \in (-1)..MaxLookback,
        m \in {"days", "date"}, d \in {NoDate, to_datetime("2020-01-01")}}

InitPriceMomentum ==
    /\ NoEngine
    /\ call \in PriceMomentumCalls
    /\ returned = NoReturn

\* MomentumFactors.calculate_price_momentum(data, lookback_days, period_type,
\* start_date).
CallCalculatePriceMomentum ==
    /\ call.fn = "calculate_price_momentum"
    /\ Return(calculate_price_momentum(call.closes, call.lookback_days,
                                       call.period_type, call.start_date))

SpecPriceMomentum == InitPriceMomentum /\ [][CallCalculatePriceMomentum]_vars

\* The Volume columns calculate_volume_momentum is called on (NaN dropped):
\* the short series and the ten volumes of the documented scenario.
VolumeChoices == {0, 10, 100}
ScenarioVolumes == <<10, 10, 10, 10, 10, 100, 100, 100, 100, 100>>
VolumeMomentumCalls ==
    {[fn |-> "calculate_volume_momentum", volumes |-> v, window |-> w] :
        v \in SeriesOver(VolumeChoices) \cup {ScenarioVolumes}, w \in 1..MaxWindow}

InitVolumeMomentum ==
    /\ NoEngine
    /\ call \in VolumeMomentumCalls
    /\ returned = NoReturn

\* MomentumFactors.calculate_volume_momentum(data, window).
CallCalculateVolumeMomentum ==
    /\ call.fn = "calculate_volume_momentum"
    /\ Return(calculate_volume_momentum(call.volumes, call.window))

SpecVolumeMomentum == InitVolumeMomentum /\ [][CallCalculateVolumeMomentum]_vars

\* The DataFrames validate_data_quality is called on: None, and frames of up
\* to MaxFrameRows rows, with all required columns, one more, one missing or
\* none at all, and nulls in any rows of Close and Volume and in all or no
\* rows of Open.
ColumnSets ==
    {required_columns, required_columns \cup {"Adj Close"}, {}}
        \cup {required_columns \ {c} : c \in required_columns}
NullMasks(rows) ==
    {[c \in required_columns \cup {"Adj Close"} |->
         CASE c = "Close" -> a
           [] c = "Volume" -> b
           [] c = "Open" -> o
           [] OTHER -> {}] :
        a \in SUBSET (1..rows), b \in SUBSET (1..rows), o \in {{}, 1..rows}}
DataFrames ==
    {NoData} \cup UNION {{DataFrame(n, cs, m) : cs \in ColumnSets, m \in NullMasks(n)} :
                           n \in 0..MaxFrameRows}
ValidateCalls ==
    {[fn |-> "validate_data_quality", data |-> d, min_records |-> m] :
        d \in DataFrames, m \in 0..MaxMinRecords}

InitValidate ==
    /\ NoEngine
    /\ call \in ValidateCalls
    /\ returned = NoReturn

\* FactorValidator.validate_data_quality(data, min_records).
CallValidateDataQuality ==
    /\ call.fn = "validate_data_quality"
    /\ Return(validate_data_quality_df(call.data, call.min_records))

SpecValidate == InitValidate /\ [][CallValidateDataQuality]_vars

\* ------------------------------------------- a MomentumStrategy used directly
\* self.tickers is a reference: to the list made by __init__ ("own", always
\* empty) or to the list the caller passed to fetch_data_sync /
\* fetch_data_async ("caller", whose content is the variable tickers).
StrategyTickers == IF strategy.tickers = "caller" THEN tickers ELSE <<>>

\* The windows of the strategies tried and the mappings a fetch can return
\* for a ticker list: a series for some, at least one, of its tickers.
StrategyWindows ==
    {parse_lookback_period(PeriodList[k]) : k \in 1..Len(PeriodList)}
        \ {parse_lookback_period(StrPeriod("garbage"))}
FetchedMappings(list) ==
    {d \in [TickerNames -> GoodFrames \cup {NoFrame}] :
        Keys(d) # {} /\ Keys(d) \subseteq Names(list)}

\* MomentumStrategy(lookback_period, top_n) and the list the caller holds.
InitStrategy ==
    /\ strategy \in {[kind |-> "MomentumStrategy", tickers |-> "own",
                      stock_data |-> EmptyDict, momentum_scores |-> <<>>,
                      win |-> w] : w \in StrategyWindows}
    /\ periods = <<>>
    /\ tickers = Tickers
    /\ observed = FALSE
    /\ call = [fn |-> "MomentumStrategy", tickers |-> Tickers]
    /\ returned = NoReturn
    /\ max_workers = 1
    /\ top_n \in 1..MaxTopN
    /\ bpc = "idle"
    /\ results = <<>>
    /\ summary = NoSummary
    /\ pc = <<>>
    /\ win = <<>>
    /\ fut = <<>>
    /\ awaitIdx = <<>>
    /\ processed_data = <<>>
    /\ stock_data = <<>>
    /\ ret = <<>>
    /\ completion = <<>>
    /\ anyOk = FALSE
    /\ called = <<>>
    /\ asyncFailed = <<>>
    /\ syncFailed = <<>>
    /\ scored = <<>>

\* What a call on the strategy leaves alone besides the strategy itself.
StrategyFrame ==
    UNCHANGED <<periods, observed, call, max_workers, top_n, bpc, results,
                summary, pc, win, fut, awaitIdx, processed_data, stock_data, ret,
                completion, anyOk, called, asyncFailed, syncFailed, scored>>

\* strategy.fetch_data_sync(tickers) or await strategy.fetch_data_async(
\* tickers) with the caller's list: self.tickers = tickers, then
\* self.stock_data = the mapping the loader returned.
FetchData ==
    /\ strategy.kind = "MomentumStrategy"
    /\ \E d \in FetchedMappings(tickers) :
          strategy' = [strategy EXCEPT !.tickers = "caller", !.stock_data = d]
    /\ returned' = NoReturn
    /\ UNCHANGED tickers
    /\ StrategyFrame

\* The same call when the loader raises: self.tickers is set, self.stock_data
\* keeps what it held.
FetchDataRaises ==
    /\ strategy.kind = "MomentumStrategy"
    /\ strategy' = [strategy EXCEPT !.tickers = "caller"]
    /\ returned' = NoReturn
    /\ UNCHANGED tickers
    /\ StrategyFrame

\* strategy.get_top_stocks(): the scores are computed only when
\* self.momentum_scores is empty, then sorted and cut to top_n; the
\* ValueErrors of no data and of no score are caught and give [].
GetTopStocks ==
    /\ strategy.kind = "MomentumStrategy"
    /\ LET scores ==
               IF strategy.momentum_scores # <<>>
               THEN [raised |-> FALSE, items |-> strategy.momentum_scores]
               ELSE calculate_momentum_scores(strategy.stock_data, StrategyTickers,
                                              strategy.win)
       IN  /\ strategy' = [strategy EXCEPT !.momentum_scores =
                              IF scores.raised THEN @ ELSE scores.items]
           /\ returned' = [done |-> TRUE,
                           value |-> IF scores.raised \/ scores.items = <<>> THEN <<>>
                                     ELSE Prefix(SortDesc(scores.items, <<>>), top_n)]
    /\ UNCHANGED tickers
    /\ StrategyFrame

\* strategy.clear_data(): stock_data.clear(), momentum_scores.clear() and
\* self.tickers.clear(), which empties the list self.tickers refers to.
ClearData ==
    /\ strategy.kind = "MomentumStrategy"
    /\ strategy' = [strategy EXCEPT !.stock_data = EmptyDict,
                                    !.momentum_scores = <<>>]
    /\ tickers' = IF strategy.tickers = "caller" THEN <<>> ELSE tickers
    /\ returned' = NoReturn
    /\ StrategyFrame

SpecStrategy ==
    InitStrategy /\ [][FetchData \/ FetchDataRaises \/ GetTopStocks \/ ClearData]_vars

\* -------------------------------------------------------------------- claims
IsOutcome(r) == r.kind = "result"
TwoTasks == Len(periods) = 2

\* C1: the list run_batch_backtest returns has one entry per period, and the
\* entry at index i is what the task of periods[i] returned (or the failed
\* outcome built from its exception), whatever the order the tasks finished.
C1_ResultsByTaskIndex ==
    bpc = "done" =>
        /\ Len(results) = Len(periods)
        /\ \A i \in TaskIds :
              /\ ret[i].kind # "exception" => results[i] = ret[i]
              /\ ret[i].kind = "exception" =>
                     results[i] = BacktestResult(periods[i], FALSE, "None", <<>>,
                                                 ret[i].error)
              /\ IsOutcome(results[i]) => results[i].period = periods[i]

\* C1 witness: the second task finished first and the results differ.
C1_Witness ==
    /\ bpc = "done"
    /\ TwoTasks
    /\ completion = <<2, 1>>
    /\ IsOutcome(results[1]) /\ IsOutcome(results[2])
    /\ results[1].success /\ ~results[2].success

\* C2: run_single_backtest always ends by returning a BacktestResult whose
\* success flag is true or false.
C2_AlwaysOutcome ==
    \A i \in TaskIds : pc[i] = "done" => IsOutcome(ret[i]) /\ ret[i].success \in BOOLEAN

\* The state of one task: its coroutine, strategy and executor.
TaskState(i) ==
    <<pc[i], win[i], fut[i], awaitIdx[i], processed_data[i], stock_data[i], ret[i]>>

\* C3: while the batch runs, a step changes the state of at most one task (a
\* failing sibling never cancels or alters another task), and a finished
\* task's outcome is never changed afterwards.
C3_SiblingIsolation ==
    [][(bpc = "gathering" /\ bpc' = "gathering") =>
          /\ \A i \in TaskIds : \A j \in TaskIds :
                (i # j /\ TaskState(i)' # TaskState(i)) => TaskState(j)' = TaskState(j)
          /\ \A i \in TaskIds :
                pc[i] = "done" => (pc'[i] = "done" /\ ret'[i] = ret[i])]_vars

\* C3 witness: a sibling failed first and the other task still succeeded.
C3_Witness ==
    /\ TwoTasks
    /\ bpc = "gathering"
    /\ completion = <<1, 2>>
    /\ IsOutcome(ret[1]) /\ ~ret[1].success /\ called[1]
    /\ IsOutcome(ret[2]) /\ ret[2].success

\* The failed entries of a result list.
FailedCount(res) ==
    Cardinality({i \in 1..Len(res) : ~(IsOutcome(res[i]) /\ res[i].success)})

\* C4: get_summary reports total_tests = N, failed_tests = M,
\* successful_tests = N - M and success_rate = (N - M) / N, and 0 for N = 0.
C4_SummaryCounts ==
    summary # NoSummary =>
        /\ ~summary.raised
        /\ summary.total_tests = Len(results)
        /\ summary.failed_tests = FailedCount(results)
        /\ summary.successful_tests = Len(results) - FailedCount(results)
        /\ summary.successful_tests + summary.failed_tests = summary.total_tests
        /\ IF Len(results) = 0 THEN summary.success_rate.num = 0
           ELSE ScoreEQ(summary.success_rate,
                        Ratio(Len(results) - FailedCount(results), Len(results)))

\* C5: when every provider call of the batch failed, the batch is never stuck,
\* every outcome is a failed BacktestResult, and get_summary returns a
\* success rate of 0 without raising.
C5_AllCallsFail ==
    /\ (bpc = "gathering" /\ ~anyOk) => ENABLED Next
    /\ (bpc = "done" /\ ~anyOk) =>
          /\ Len(results) = Len(periods)
          /\ \A i \in TaskIds : IsOutcome(results[i]) /\ ~results[i].success
          /\ summary # NoSummary =>
                /\ ~summary.raised
                /\ summary.total_tests = Len(periods)
                /\ summary.success_rate.num = 0

\* C5 witness: a batch whose provider calls, fallback included, all failed,
\* summarised.
C5_Witness ==
    /\ bpc = "done"
    /\ ~anyOk
    /\ TwoTasks
    /\ \A i \in TaskIds : called[i] /\ asyncFailed[i] /\ syncFailed[i]
    /\ summary # NoSummary

\* C6: every outcome has exactly one of selection and error: success means a
\* non-empty top_stocks and no error_message, failure means an empty
\* top_stocks and an error_message.
OneOfSelectionOrError(r) ==
    /\ r.success => (r.top_stocks # <<>> /\ r.error_message = "None")
    /\ ~r.success => (r.top_stocks = <<>> /\ r.error_message # "None")

C6_SelectionXorError ==
    /\ \A i \in TaskIds : IsOutcome(ret[i]) => OneOfSelectionOrError(ret[i])
    /\ \A i \in 1..Len(results) :
          IsOutcome(results[i]) => OneOfSelectionOrError(results[i])

\* C6 witness: a batch with a succeeded and a failed outcome.
C6_Witness ==
    /\ bpc = "done"
    /\ TwoTasks
    /\ IsOutcome(results[1]) /\ results[1].success /\ Len(results[1].top_stocks) = 2
    /\ IsOutcome(results[2]) /\ ~results[2].success

\* The selection and scoring were skipped and the outcome is the failure of
\* a data fetch that produced nothing.
NoDataFailure(i) ==
    /\ IsOutcome(ret[i])
    /\ ~ret[i].success
    /\ ret[i].error_message = "DataFetchFailed"
    /\ ~scored[i]

\* C7 as stated: a task whose concurrent fetch ended with every ticker
\* failed has a failed, no-data outcome and neither scores nor selects.
C7_AsyncAllFailedTaskFails ==
    \A i \in TaskIds : (pc[i] = "done" /\ asyncFailed[i]) => NoDataFailure(i)

\* C7 amended: fetch_stocks_async fails exactly when no ticker produced a
\* series, and the task then issues the synchronous fallback fetch; when that
\* fails too the outcome is a failed, no-data outcome without scoring or
\* selection, and the task scores only on a validated series of the fallback.
C7_FallbackThenNoData ==
    \A i \in TaskIds :
        /\ (bpc = "gathering" /\ pc[i] \in {"sync_call", "done"} /\ win[i].ok) =>
              (asyncFailed[i] <=> \A t \in TickerIdx : fut[i][t].result = NoFrame)
        /\ (pc[i] = "done" /\ asyncFailed[i]) => called[i]
        /\ (pc[i] = "done" /\ asyncFailed[i] /\ syncFailed[i]) => NoDataFailure(i)
        /\ (pc[i] = "done" /\ asyncFailed[i] /\ ~syncFailed[i]) => scored[i]
        /\ (bpc = "gathering" /\ pc[i] = "done" /\ asyncFailed[i] /\ scored[i]) =>
              /\ Keys(stock_data[i]) # {}
              /\ \A n \in Keys(stock_data[i]) :
                    stock_data[i][n].rows >= DefaultMinRecords /\ stock_data[i][n].cols

\* C7 witness: both fetches of a task failed and its outcome is the failure.
C7_Witness ==
    \E i \in TaskIds :
        /\ pc[i] = "done" /\ asyncFailed[i] /\ syncFailed[i]
        /\ NoDataFailure(i)

\* C8: a task whose lookback spec is an unparsable string never reaches the
\* fetch: it ends at once with the failed outcome of the invalid spec, the
\* same for every run, and no provider call is issued for it.
C8_InvalidSpecFailsAtOnce ==
    \A i \in TaskIds :
        periods[i] = StrPeriod("garbage") =>
            /\ pc[i] \in {"none", "created", "done"}
            /\ ~called[i] /\ ~scored[i]
            /\ \A t \in TickerIdx : bpc = "gathering" => fut[i][t].state = "idle"
            /\ pc[i] = "done" =>
                  ret[i] = BacktestResult(StrPeriod("garbage"), FALSE, "None", <<>>,
                                          "InvalidSpec")

\* C8 witness: a task with an unparsable spec has ended.
C8_Witness ==
    \E i \in TaskIds :
        /\ periods[i] = StrPeriod("garbage")
        /\ pc[i] = "done"
        /\ IsOutcome(ret[i]) /\ ret[i].error_message = "InvalidSpec"

\* C9: at most max_workers fetch_single_stock calls of a task are in flight.
C9_WorkerBudget ==
    \A i \in TaskIds : Cardinality(Running(i)) <= max_workers

\* C9 witness: the budget is used up while a ticker still waits in the queue.
C9_Witness ==
    \E i \in TaskIds :
        /\ Cardinality(Running(i)) = max_workers
        /\ \E t \in TickerIdx : fut[i][t].state = "queued"

\* C10: in fetch_stocks_async every ticker's fetch runs to its end whatever
\* the others did, and the mapping collected, and returned when it is not
\* empty, holds exactly the tickers whose fetch gave a series, each with its
\* own series.
C10_AsyncMapping ==
    \A i \in TaskIds :
        (bpc = "gathering" /\ win[i].ok) =>
            /\ \A t \in TickerIdx :
                  IF t < awaitIdx[i]
                  THEN /\ fut[i][t].state = "done"
                       /\ processed_data[i][tickers[t]] = fut[i][t].result
                  ELSE processed_data[i][tickers[t]] = NoFrame
            /\ (pc[i] = "done" /\ ~asyncFailed[i]) =>
                  /\ awaitIdx[i] > Len(tickers)
                  /\ Keys(processed_data[i]) # {}
                  /\ stock_data[i] = processed_data[i]

\* C10 witness: the first ticker failed, the second gave a series and is the
\* one key of the returned mapping.
C10_Witness ==
    \E i \in TaskIds :
        /\ bpc = "gathering" /\ pc[i] = "done" /\ ~asyncFailed[i]
        /\ fut[i][1].result = NoFrame
        /\ fut[i][2].result # NoFrame
        /\ Keys(stock_data[i]) = {tickers[2]}
        /\ stock_data[i][tickers[2]] = fut[i][2].result

\* ------------------------------------------------- claims on a single call
\* C11: fetch_stocks_async never returns an empty mapping: it returns the
\* collected mapping when some ticker gave a series, and raises its
\* all-fetches-failed error when none did, an empty ticker list included.
C11_NoEmptyMapping ==
    \A i \in TaskIds :
        (bpc = "gathering" /\ win[i].ok /\ pc[i] \in {"sync_call", "done"}) =>
            IF \E t \in TickerIdx : fut[i][t].result # NoFrame
            THEN /\ ~asyncFailed[i]
                 /\ Keys(processed_data[i]) # {}
                 /\ pc[i] = "done" => stock_data[i] = processed_data[i]
            ELSE /\ asyncFailed[i]
                 /\ Keys(processed_data[i]) = {}

\* C11 witness: a call with an empty ticker list ended in the error.
C11_Witness ==
    \E i \in TaskIds :
        /\ tickers = <<>>
        /\ win[i].ok
        /\ asyncFailed[i]
        /\ pc[i] = "sync_call"

\* The provider calls of a fetch that opened an attempt.
MainCalls(f) == {k \in 1..Len(f.queries) : f.queries[k].phase = "main"}

\* C12: a fetch makes at most max_retries attempts, of at most two provider
\* calls each, and gives up only after the last one; every attempt issues
\* the queries of the first attempt again.
C12_BoundedAttempts ==
    \A i \in TaskIds : \A t \in TickerIdx :
        LET f == fut[i][t]
            qs == f.queries
        IN  /\ f.attempt < max_retries
            /\ Cardinality(MainCalls(f)) <= max_retries
            /\ Len(qs) <= 2 * max_retries
            /\ \A k \in 1..Len(qs) :
                  /\ qs[k].attempt < max_retries
                  /\ qs[k].phase = "main" => qs[k].query = qs[1].query
                  /\ \A l \in 1..Len(qs) :
                        qs[k].phase = qs[l].phase => qs[k].query = qs[l].query
            /\ f.state = "running" => ENABLED ProviderCall(i, t)
            /\ (f.state = "done" /\ f.result = NoFrame) =>
                  Cardinality(MainCalls(f)) = max_retries

\* C12 witness: a fetch gave up after max_retries attempts of two calls each.
C12_Witness ==
    \E i \in TaskIds : \E t \in TickerIdx :
        /\ fut[i][t].state = "done"
        /\ fut[i][t].result = NoFrame
        /\ Cardinality(MainCalls(fut[i][t])) = max_retries
        /\ Len(fut[i][t].queries) = 2 * max_retries

\* C13: a fetch never raises, and when every answer of the provider was an
\* error, empty or failed validation it returns None after max_retries
\* attempts.
C13_NoneNotRaise ==
    \A i \in TaskIds : \A t \in TickerIdx :
        /\ fut[i][t].state # "raised"
        /\ (fut[i][t].state = "done" /\ fut[i][t].bad) =>
              /\ fut[i][t].result = NoFrame
              /\ Cardinality(MainCalls(fut[i][t])) = max_retries

\* C13 witness: a fetch over a date window whose answers were all unusable
\* returned None.
C13_Witness ==
    \E i \in TaskIds : \E t \in TickerIdx :
        /\ fut[i][t].state = "done"
        /\ fut[i][t].bad
        /\ fut[i][t].result = NoFrame
        /\ win[i].period_type = "date"

\* The tickers of an outcome's selection.
Selected(r) == {r.top_stocks[k].ticker : k \in 1..Len(r.top_stocks)}

\* Every fetch of ticker n by task i returned None.
FetchFailed(i, n) ==
    \A t \in TickerIdx : tickers[t] = n => fut[i][t].result = NoFrame

\* C14 as stated: a ticker whose fetch returned None after all its retries
\* is never in the task's selection, and the task never raises.
C14_FailedNeverSelected ==
    \A i \in TaskIds :
        (bpc = "gathering" /\ pc[i] = "done") =>
            /\ ret[i].kind # "exception"
            /\ IsOutcome(ret[i]) =>
                  \A n \in Names(tickers) : FetchFailed(i, n) => n \notin Selected(ret[i])

\* C14 amended: the task never raises, every selected ticker has a
\* validated series in stock_data, and unless the task fell back to the
\* synchronous fetch that series is what a fetch of the ticker returned
\* from a usable answer.
C14_SelectedHasSeries ==
    \A i \in TaskIds :
        (bpc = "gathering" /\ pc[i] = "done") =>
            /\ ret[i].kind # "exception"
            /\ IsOutcome(ret[i]) =>
                  \A n \in Selected(ret[i]) :
                      /\ stock_data[i][n] # NoFrame
                      /\ validate_data_quality(stock_data[i][n], AsyncMinRecords)
                      /\ ~asyncFailed[i] =>
                            \E t \in TickerIdx :
                                /\ tickers[t] = n
                                /\ ~fut[i][t].bad
                                /\ fut[i][t].result = stock_data[i][n]

\* C14 witness: the first ticker failed on every attempt, the second is the
\* whole selection of a succeeded task.
C14_Witness ==
    \E i \in TaskIds :
        /\ bpc = "gathering" /\ pc[i] = "done" /\ ~asyncFailed[i]
        /\ Len(tickers) = 2
        /\ fut[i][1].bad /\ fut[i][1].result = NoFrame
        /\ IsOutcome(ret[i]) /\ ret[i].success
        /\ Selected(ret[i]) = {tickers[2]}

\* ------------------------------------------------- claims on get_top_stocks
\* The place of a ticker in a ticker list: its first occurrence.
FirstIndex(list, n) ==
    CHOOSE k \in 1..Len(list) : list[k] = n /\ \A j \in 1..(k - 1) : list[j] # n

\* C15: the list get_top_stocks returns is sorted by score, non-increasing,
\* and tickers of equal score are in the order of the input ticker list.
C15_SortedStable ==
    (call.fn = "get_top_stocks" /\ returned.done) =>
        \A k \in 1..Len(returned.value) : \A l \in 1..Len(returned.value) :
            k < l =>
                /\ ~ScoreGT(returned.value[l].score, returned.value[k].score)
                /\ ScoreEQ(returned.value[k].score, returned.value[l].score) =>
                       FirstIndex(call.tickers, returned.value[k].ticker)
                           < FirstIndex(call.tickers, returned.value[l].ticker)

\* C15 witness: three tickers returned, the first two tied and out of
\* alphabetical order, the third strictly lower.
C15_Witness ==
    /\ call.fn = "get_top_stocks" /\ returned.done
    /\ Len(returned.value) = 3
    /\ ScoreEQ(returned.value[1].score, returned.value[2].score)
    /\ ScoreGT(returned.value[2].score, returned.value[3].score)
    /\ returned.value[1].ticker = "CCC"
    /\ returned.value[2].ticker = "AAA"

\* The tickers of the list that get a score: fetched and long enough.
Available(c) ==
    {n \in Names(c.tickers) :
        /\ c.stock_data[n] # NoFrame
        /\ validate_stock_data(c.stock_data[n].rows, c.win)}

\* C16: get_top_stocks returns min(top_n, number of scored tickers) entries.
C16_CountIsMin ==
    (call.fn = "get_top_stocks" /\ returned.done) =>
        Len(returned.value) =
            IF call.top_n < Cardinality(Available(call)) THEN call.top_n
            ELSE Cardinality(Available(call))

\* C16 witness: top_n is larger than the two scored tickers, both returned.
C16_Witness ==
    /\ call.fn = "get_top_stocks" /\ returned.done
    /\ Cardinality(Available(call)) = 2
    /\ call.top_n > 2
    /\ Len(returned.value) = 2

\* C17: the score of every ticker of a task's selection is the composite
\* 0.7 * price + 0.2 * volume + 0.1 * rsi momentum of the ticker's series.
C17_ScoreIsComposite ==
    \A i \in TaskIds :
        (bpc = "gathering" /\ pc[i] = "done" /\ IsOutcome(ret[i])) =>
            \A k \in 1..Len(ret[i].top_stocks) :
                ScoreEQ(ret[i].top_stocks[k].score,
                        calculate_composite_momentum(
                            stock_data[i][ret[i].top_stocks[k].ticker],
                            win[i].lookback_days, win[i].period_type,
                            win[i].start_date))

\* ------------------------------------------ claims on _parse_lookback_period
\* C18: for every integer day count n >= 1 the resolution does not fail and
\* gives lookback_days = n, mode days and no anchor date.
C18_DaysResolve ==
    (/\ call.fn = "parse_lookback_period" /\ returned.done
     /\ call.period.tag = "int" /\ call.period.n >= 1) =>
        returned.value = [ok |-> TRUE, lookback_days |-> call.period.n,
                          start_date |-> NoDate, period_type |-> "days"]

\* C18 witness: the day count 1 resolved to a window of 1 day.
C18_Witness ==
    /\ call.fn = "parse_lookback_period" /\ returned.done
    /\ call.period = IntPeriod(1)
    /\ returned.value.ok /\ returned.value.lookback_days = 1

\* C19: every window resolved without error has lookback_days >= 1, for
\* any integer day count and any anchor date, today and the future included.
C19_LookbackAtLeastOne ==
    (call.fn = "parse_lookback_period" /\ returned.done /\ returned.value.ok) =>
        returned.value.lookback_days >= 1

\* ---------------------------------------- claims on analyze_stock_performance
\* The succeeded outcomes of a list whose selection holds ticker n.
AppearsIn(res, n) ==
    {r \in 1..Len(res) : res[r].success /\ n \in Selected(res[r])}

\* C20: the tickers analysed are those of the succeeded outcomes'
\* selections; appearances counts the succeeded outcomes that selected the
\* ticker and consistency is appearances / (number of succeeded outcomes),
\* failed outcomes counting in neither; the divisor is not zero and the
\* consistency is in (0, 1].
C20_Consistency ==
    (call.fn = "analyze_stock_performance" /\ returned.done) =>
        /\ ~returned.value.raised
        /\ \A n \in TickerNames :
              LET stats == returned.value.perf[n]
                  appearances == Cardinality(AppearsIn(call.results, n))
                  succeeded ==
                      Cardinality({r \in 1..Len(call.results) :
                                      call.results[r].success})
              IN  IF appearances = 0 THEN stats = NoPerf
                  ELSE /\ stats.appearances = appearances
                       /\ succeeded > 0
                       /\ stats.consistency.den > 0
                       /\ stats.consistency.num * succeeded
                              = appearances * stats.consistency.den
                       /\ stats.consistency.num > 0
                       /\ stats.consistency.num <= stats.consistency.den

\* C20 witness: a list with a failed outcome where one ticker was selected
\* by every succeeded outcome and another by one of two.
C20_Witness ==
    /\ call.fn = "analyze_stock_performance" /\ returned.done
    /\ \E r \in 1..Len(call.results) : ~call.results[r].success
    /\ returned.value.perf["BBB"].appearances = 2
    /\ returned.value.perf["BBB"].consistency = Ratio(2, 2)
    /\ returned.value.perf["AAA"].appearances = 1
    /\ returned.value.perf["AAA"].consistency = Ratio(1, 2)

\* ------------------------------------------------ claims on get_best_performers
\* C21: get_best_performers(K) returns at most K entries, each the period
\* and selection of a succeeded outcome of the results, in the order of the
\* mean score of the selection, descending; no failed outcome is in it.
C21_BestPerformers ==
    (call.fn = "get_best_performers" /\ returned.done) =>
        /\ ~returned.value.raised
        /\ Len(returned.value.best) <= call.top_n
        /\ \A k \in 1..Len(returned.value.best) :
              \E r \in 1..Len(call.results) :
                  /\ call.results[r].success
                  /\ call.results[r].period = returned.value.best[k].period
                  /\ call.results[r].top_stocks = returned.value.best[k].top_stocks
        /\ \A k \in 1..Len(returned.value.best) :
              \A l \in (k + 1)..Len(returned.value.best) :
                  ~ScoreGT(AvgScore(returned.value.best[l].top_stocks),
                           AvgScore(returned.value.best[k].top_stocks))

\* ------------------------------------------------------------ claims on time
\* fetch_single_stock of the t-th ticker of the first task is under way.
\* C22: whatever the provider does, a call that never responds included,
\* every fetch attempt ends, so that the task and the batch complete.
InFlight(t) == t \in DOMAIN fut[1] /\ fut[1][t].state = "running"
C22_BoundedAttempts ==
    /\ \A t \in 1..Len(Tickers) : InFlight(t) ~> ~InFlight(t)
    /\ (bpc = "gathering") ~> (bpc = "done")

\* ----------------------------------------------------- claims on suspension
\* Task i has a provider call outstanding: a fetch of its in a worker thread,
\* or the yf.download of its fetch_stocks_sync.
Outstanding(i) ==
    \/ pc[i] = "sync_call"
    \/ pc[i] = "awaiting" /\ \E t \in TickerIdx : fut[i][t].state = "running"

\* Task j has a step of its own to take: the future it awaits is done.
Resumable(j) == pc[j] = "awaiting" /\ FutureOver(fut[j][awaitIdx[j]])

\* The step of task j after its await.
Resume(j) == AwaitTicker(j) \/ AwaitLastData(j) \/ AwaitLastEmpty(j)

\* C23: while a provider call of a task is outstanding, the call of the
\* synchronous fallback included, a sibling task whose awaited fetch is done
\* can take its next step.
C23_SiblingsProceed ==
    \A i \in TaskIds : \A j \in TaskIds \ {i} :
        (bpc = "gathering" /\ Outstanding(i) /\ Resumable(j)) => ENABLED Resume(j)

\* -------------------------------------------------------- claims on scoring
\* The tickers that calculate_momentum_scores gives a score.
ScoredTickers(i) ==
    {calculate_momentum_scores(stock_data[i], tickers, win[i]).items[k].ticker :
        k \in 1..Len(calculate_momentum_scores(stock_data[i], tickers, win[i]).items)}

\* C24: scoring does not raise and every ticker of the mapping that the
\* fetch phase returned gets a momentum score, whatever the length of its
\* series.
C24_EveryFetchedScored ==
    \A i \in TaskIds :
        (bpc = "gathering" /\ scored[i]) =>
            /\ ~calculate_momentum_scores(stock_data[i], tickers, win[i]).raised
            /\ ScoredTickers(i) = Keys(stock_data[i])

\* ------------------------------------------------- claims on the fallback query
\* The positions of the fallback queries among the provider calls of a fetch.
Fallbacks(f) == {k \in 1..Len(f.queries) : f.queries[k].phase = "fallback"}

\* C25 as stated: over one fetch_single_stock call the fallback query is
\* issued at most once.
C25_FallbackOncePerCall ==
    \A i \in TaskIds : \A t \in TickerIdx :
        Cardinality(Fallbacks(fut[i][t])) <= 1

\* C25: in days mode from 365 days on, the fallback query is issued only
\* right after the max query of the same attempt raised, it is the bounded
\* range computed from lookback_days, and it is issued at most once in an
\* attempt; a max query that raised is always followed by it.
C25_FallbackOncePerAttempt ==
    \A i \in TaskIds : \A t \in TickerIdx :
        LET q == fut[i][t].queries
        IN  /\ \A k \in Fallbacks(fut[i][t]) :
                  /\ win[i].period_type = "days"
                  /\ win[i].lookback_days >= LongWindow
                  /\ q[k].query = PeriodQuery(calculate_period(win[i].lookback_days))
                  /\ k > 1
                  /\ q[k - 1].phase = "main"
                  /\ q[k - 1].query = PeriodQuery("max")
                  /\ q[k - 1].raised
                  /\ q[k - 1].attempt = q[k].attempt
            /\ \A k \in Fallbacks(fut[i][t]) : \A l \in Fallbacks(fut[i][t]) :
                  k # l => q[k].attempt # q[l].attempt
            /\ \A k \in 1..Len(q) :
                  (q[k].phase = "main" /\ q[k].query = PeriodQuery("max")
                       /\ q[k].raised /\ k < Len(q)) =>
                      k + 1 \in Fallbacks(fut[i][t])

\* A fetch that issued the fallback query in each of its two attempts.
C25_Witness ==
    \E i \in TaskIds : \E t \in TickerIdx :
        /\ Cardinality(Fallbacks(fut[i][t])) = max_retries
        /\ FutureOver(fut[i][t])

\* ------------------------------------------------ claims on short histories
\* The window of task i is a days-mode window of 365 days or more.
LongDays(i) ==
    /\ bpc = "gathering"
    /\ win[i].ok
    /\ win[i].period_type = "days"
    /\ win[i].lookback_days >= LongWindow

\* A series of at least 30 clean bars, fewer than the window of task i.
ShortHistory(i, frame) ==
    /\ frame.rows >= MinLongRows
    /\ frame.rows < win[i].lookback_days

\* C26: in days mode from 365 days on, an answer of the provider with fewer
\* valid bars than lookback_days but at least 30 is returned by
\* fetch_single_stock, whichever query it answers, and a ticker with such a
\* series is scored from its earliest close to its latest.
C26_ShortHistoryAccepted ==
    \A i \in TaskIds :
        LongDays(i) =>
            /\ \A t \in TickerIdx :
                  fut[i][t].state = "running" =>
                      \A r \in Responses :
                          (~Unusable(r) /\ ShortHistory(i, dropna(r))) =>
                              FetchStep(r, fut[i][t].attempt, fut[i][t].phase, win[i])
                                  = [next |-> "return", value |-> dropna(r)]
            /\ scored[i] =>
                  \A n \in Keys(stock_data[i]) \cap Names(tickers) :
                      ShortHistory(i, stock_data[i][n]) =>
                          \E k \in 1..Len(calculate_momentum_scores(
                                             stock_data[i], tickers, win[i]).items) :
                              calculate_momentum_scores(
                                  stock_data[i], tickers, win[i]).items[k]
                                = [ticker |-> n,
                                   score |-> Ratio(
                                       Closes(stock_data[i][n])[stock_data[i][n].rows]
                                           - Closes(stock_data[i][n])[1],
                                       Closes(stock_data[i][n])[1])]

\* C26 witness: a task over 365 days selected a ticker that fetch_single_stock
\* returned with 30 bars.
C26_Witness ==
    \E i \in TaskIds : \E t \in TickerIdx :
        /\ LongDays(i)
        /\ scored[i]
        /\ ~asyncFailed[i]
        /\ fut[i][t].state = "done"
        /\ fut[i][t].result # NoFrame
        /\ ShortHistory(i, fut[i][t].result)
        /\ ret[i].kind = "result"
        /\ ret[i].success
        /\ tickers[t] \in Selected(ret[i])

\* ------------------------------------------------- claims on the provider query
\* C27: in days mode the query that opens an attempt of fetch_single_stock
\* asks for the maximum history exactly when lookback_days >= 365, below 365
\* every query asks for the period of calculate_period, and with an anchor
\* date every query asks for the range from the anchor date to now.
C27_QueryChoice ==
    \A i \in TaskIds : \A t \in TickerIdx :
        \A k \in 1..Len(fut[i][t].queries) :
            LET q == fut[i][t].queries[k]
            IN  IF win[i].period_type = "date" /\ win[i].start_date.set
                THEN q.query = RangeQuery(win[i].start_date.day, Now)
                ELSE /\ q.phase = "main" =>
                          (q.query = PeriodQuery("max")
                              <=> win[i].lookback_days >= LongWindow)
                     /\ win[i].lookback_days < LongWindow =>
                          /\ q.phase = "main"
                          /\ q.query =
                                PeriodQuery(calculate_period(win[i].lookback_days))

\* C27 witness: a fetch over exactly 365 days asked for the maximum history.
C27_Witness ==
    \E i \in TaskIds : \E t \in TickerIdx :
        /\ LongDays(i)
        /\ win[i].lookback_days = LongWindow
        /\ Len(fut[i][t].queries) >= 1
        /\ fut[i][t].queries[1].query = PeriodQuery("max")
        /\ FutureOver(fut[i][t])

\* ------------------------------------------------- claims on calculate_period
\* The periods of the provider, shortest first.
PeriodOrder == <<"5d", "1mo", "3mo", "6mo", "1y", "2y", "5y", "10y", "max">>
PeriodRank(p) == CHOOSE k \in 1..Len(PeriodOrder) : PeriodOrder[k] = p

\* The day counts above which the next longer period is chosen.
PeriodThresholds == <<5, 30, 90, 180, 365, 730, 1825, 3650>>

\* C28: calculate_period is a monotonic step function: the period of a
\* shorter lookback is never longer than the period of a longer one, and the
\* period is the one whose threshold floor(1.5 * lookback_days) does not
\* exceed.
C28_MonotonicSteps ==
    (call.fn = "calculate_period" /\ returned.done) =>
        /\ returned.value \in {PeriodOrder[k] : k \in 1..Len(PeriodOrder)}
        /\ \A a \in PeriodDays :
              a <= call.lookback_days =>
                  PeriodRank(calculate_period(a)) <= PeriodRank(returned.value)
        /\ PeriodRank(returned.value) =
              1 + Cardinality({k \in 1..Len(PeriodThresholds) :
                     (3 * call.lookback_days) \div 2 > PeriodThresholds[k]})

\* C28 witness: a lookback long enough for the maximum history.
C28_Witness ==
    /\ call.fn = "calculate_period"
    /\ returned.done
    /\ returned.value = "max"

\* ---------------------------------------------------- claims on the selection
\* No ticker of task i gets a momentum score.
NoScore(i) ==
    \/ calculate_momentum_scores(stock_data[i], tickers, win[i]).raised
    \/ calculate_momentum_scores(stock_data[i], tickers, win[i]).items = <<>>

\* C29: when no ticker gets a score, get_top_stocks returns the empty list
\* and the task returns an outcome with success = false and an error message.
C29_NoScoreFails ==
    \A i \in TaskIds :
        (bpc = "gathering" /\ scored[i] /\ NoScore(i)) =>
            /\ get_top_stocks(stock_data[i], tickers, win[i], top_n) = <<>>
            /\ pc[i] = "done"
            /\ ret[i].kind = "result"
            /\ ~ret[i].success
            /\ ret[i].top_stocks = <<>>
            /\ ret[i].error_message # "None"

\* C29 witness: a ticker was fetched, none was scored, the task failed.
C29_Witness ==
    \E i \in TaskIds :
        /\ bpc = "gathering"
        /\ scored[i]
        /\ Keys(stock_data[i]) # {}
        /\ NoScore(i)
        /\ ret[i].kind = "result"
        /\ ret[i].error_message = "NoRecommendation"

\* C30: an outcome with success = true carries the list get_top_stocks
\* returned, the same tickers with the same scores in the same order, and
\* the batch keeps it so in its results.
C30_SuccessCarriesSelection ==
    \A i \in TaskIds :
        /\ (bpc = "gathering" /\ pc[i] = "done" /\ ret[i].kind = "result"
               /\ ret[i].success) =>
              /\ scored[i]
              /\ ret[i].top_stocks # <<>>
              /\ ret[i].top_stocks =
                    get_top_stocks(stock_data[i], tickers, win[i], top_n)
        /\ (bpc = "done" /\ results[i].kind = "result" /\ results[i].success) =>
              results[i] = ret[i]

\* C30 witness: two tasks succeeded with selections of two tickers.
C30_Witness ==
    /\ bpc = "done"
    /\ Len(results) = 2
    /\ \A i \in TaskIds :
          /\ results[i].kind = "result"
          /\ results[i].success
          /\ Len(results[i].top_stocks) = 2

\* ------------------------------------------------------ claims on the phases
\* The lookback spec of task i is one that resolves: a day count or a date.
Resolvable(i) ==
    \/ periods[i].tag = "int"
    \/ periods[i].tag = "str" /\ to_datetime(periods[i].text).set

\* C31: within a task the phases come in the order resolve, fetch, score,
\* select, outcome: a fetch is submitted or a provider call made only for a
\* resolved lookback spec, the scores are computed only once every fetch of
\* the task is over and on the mapping the fetch phase returned, and a
\* selection is in the outcome only after scoring.
C31_PhaseOrder ==
    \A i \in TaskIds :
        bpc = "gathering" =>
            /\ pc[i] = "created" =>
                  /\ ~called[i] /\ ~scored[i] /\ ret[i] = Pending
                  /\ \A t \in TickerIdx : fut[i][t].state = "idle"
            /\ (called[i] \/ \E t \in TickerIdx : fut[i][t].state # "idle") =>
                  /\ Resolvable(i)
                  /\ win[i].ok
            /\ scored[i] =>
                  /\ pc[i] = "done"
                  /\ \A t \in TickerIdx : FutureOver(fut[i][t])
                  /\ ~asyncFailed[i] => stock_data[i] = processed_data[i]
                  /\ asyncFailed[i] => ~syncFailed[i]
            /\ (ret[i].kind = "result" /\ ret[i].top_stocks # <<>>) => scored[i]
            /\ (pc[i] = "done" /\ ~scored[i]) =>
                  /\ ret[i].kind = "result"
                  /\ ~ret[i].success
                  /\ ret[i].top_stocks = <<>>

\* C31 witness: a task went through every phase and selected two tickers
\* while its sibling is still fetching.
C31_Witness ==
    \E i \in TaskIds : \E j \in TaskIds :
        /\ bpc = "gathering"
        /\ scored[i]
        /\ ret[i].kind = "result"
        /\ Len(ret[i].top_stocks) = 2
        /\ pc[j] = "awaiting"
        /\ called[j]

\* ------------------------------------------------- claims on the coordinator
\* fetch_stocks_async of task i has handed control back: it returned its
\* mapping or raised.
Returned(i) ==
    /\ bpc = "gathering"
    /\ win[i].ok
    /\ pc[i] \in {"sync_call", "done"}

\* C32: once fetch_stocks_async has returned or raised, every fetch it
\* launched is over and was awaited, none can still take a step, and every
\* ticker with a result is in the mapping.
C32_AllCollected ==
    \A i \in TaskIds :
        Returned(i) =>
            /\ awaitIdx[i] = Len(tickers) + 1
            /\ \A t \in TickerIdx :
                  /\ FutureOver(fut[i][t])
                  /\ ~ENABLED ProviderCall(i, t)
                  /\ ~ENABLED WorkerStart(i, t)
                  /\ fut[i][t].result # NoFrame =>
                        processed_data[i][tickers[t]] # NoFrame

\* C32 witness: fetch_stocks_async returned a mapping of two tickers, one of
\* them fetched at its second attempt, with two worker threads.
C32_Witness ==
    \E i \in TaskIds :
        /\ Returned(i)
        /\ ~asyncFailed[i]
        /\ max_workers = 2
        /\ Len(tickers) = 2
        /\ fut[i][1].attempt = 1
        /\ fut[i][2].attempt = 0
        /\ Keys(processed_data[i]) = {"AAA", "BBB"}

\* ------------------------------------------- claims on calculate_price_momentum
\* The call is for an anchor-date window.
Anchored == call.period_type = "date" /\ call.start_date.set

\* The start close the claim names: the earliest for an anchor-date window or
\* a series shorter than lookback_days, else the close lookback_days
\* positions from the end.
StartClose ==
    IF Anchored \/ Len(call.closes) < call.lookback_days THEN call.closes[1]
    ELSE call.closes[Len(call.closes) - call.lookback_days + 1]

\* C33: calculate_price_momentum returns 0.0 with fewer than 2 closes or a
\* start close of 0, and else (last - start) / start, the start close being
\* the earliest for an anchor-date window or a short series and the close
\* lookback_days positions from the end otherwise (lookback_days >= 1).
C33_PriceMomentum ==
    (call.fn = "calculate_price_momentum" /\ returned.done) =>
        IF Len(call.closes) < 2 THEN returned.value = Ratio(0, 1)
        ELSE (Anchored \/ call.lookback_days >= 1) =>
                IF StartClose = 0 THEN returned.value = Ratio(0, 1)
                ELSE returned.value =
                        Ratio(call.closes[Len(call.closes)] - StartClose, StartClose)

\* C33 witness: closes [100, 110, 121] with lookback_days = 2 give
\* (121 - 110) / 110.
C33_Witness ==
    /\ call.fn = "calculate_price_momentum"
    /\ call.closes = <<100, 110, 121>>
    /\ call.lookback_days = 2
    /\ ~Anchored
    /\ returned.done
    /\ returned.value = Ratio(11, 110)

\* ------------------------------------------ claims on calculate_volume_momentum
\* The number of volumes before the last `window` ones, and their sum.
EarlierCount == Len(call.volumes) - call.window
EarlierSum == SumFrom(call.volumes, 1, EarlierCount)
RecentSum == SumFrom(call.volumes, EarlierCount + 1, Len(call.volumes))

\* C34: calculate_volume_momentum returns a defined number for every series
\* and window: 0.0 when the series is shorter than the window, when no
\* earlier volume remains or when the mean of the earlier volumes is 0, and
\* else (recent mean - earlier mean) / earlier mean.
C34_VolumeMomentumTotal ==
    (call.fn = "calculate_volume_momentum" /\ returned.done) =>
        /\ returned.value.den # 0
        /\ IF EarlierCount <= 0 THEN returned.value = Ratio(0, 1)
           ELSE IF EarlierSum = 0 THEN returned.value = Ratio(0, 1)
           ELSE ScoreEQ(returned.value,
                        Ratio(RecentSum * EarlierCount - EarlierSum * call.window,
                              EarlierSum * call.window))

\* ------------------------------------------- claims on validate_data_quality
\* C35: validate_data_quality returns true exactly when the frame is not
\* None, has at least one row and at least min_records rows, has all of Open,
\* High, Low, Close, Volume, and each of them has a value that is not null
\* in some row; it returns false otherwise.
C35_DataQuality ==
    (call.fn = "validate_data_quality" /\ returned.done) =>
        /\ returned.value \in BOOLEAN
        /\ returned.value <=>
              /\ ~call.data.none
              /\ call.data.rows >= 1
              /\ call.data.rows >= call.min_records
              /\ \A c \in {"Open", "High", "Low", "Close", "Volume"} :
                    /\ c \in call.data.columns
                    /\ \E k \in 1..call.data.rows : k \notin call.data.isnull[c]

\* C35 witness: a frame with a null in one row of Close and an extra column
\* is valid.
C35_Witness ==
    /\ call.fn = "validate_data_quality"
    /\ returned.done
    /\ returned.value
    /\ call.data.rows = 2
    /\ call.data.isnull["Close"] = {1}
    /\ "Adj Close" \in call.data.columns
    /\ call.min_records = 2

\* ------------------------------------------- claims on a strategy used directly
\* C36: whatever fetches and get_top_stocks calls came before, every ticker
\* get_top_stocks returns is a key of the current stock_data and its score is
\* the momentum of the current series.
C36_RanksCurrentData ==
    (strategy.kind = "MomentumStrategy" /\ returned.done) =>
        \A k \in 1..Len(returned.value) :
            /\ returned.value[k].ticker \in Keys(strategy.stock_data)
            /\ returned.value[k].score =
                  calculate_price_momentum(
                      Closes(strategy.stock_data[returned.value[k].ticker]),
                      strategy.win.lookback_days, strategy.win.period_type,
                      strategy.win.start_date)

\* C39: clear_data empties the strategy's own state only: the list the caller
\* passed to fetch_data_sync / fetch_data_async still holds the tickers the
\* caller put in it.
C39_CallerListKept ==
    strategy.kind = "MomentumStrategy" => tickers = call.tickers

\* ---------------------------------------------------- claims on determinism
\* The mapping that the results of the fetches of task i determine: for a
\* ticker, the result of the last fetch of it in list order that is not None.
LastFetched(i, n) ==
    CHOOSE t \in TickerIdx :
        /\ tickers[t] = n /\ fut[i][t].result # NoFrame
        /\ \A u \in TickerIdx :
              (tickers[u] = n /\ fut[i][u].result # NoFrame) => u <= t
ResultsMapping(i) ==
    [n \in TickerNames |->
        IF \E t \in TickerIdx : tickers[t] = n /\ fut[i][t].result # NoFrame
        THEN fut[i][LastFetched(i, n)].result
        ELSE NoFrame]

\* C37: the selection of a task is a function of the results of its fetches
\* taken in the order of the ticker list, whatever the order in which they
\* completed and whatever the siblings did, and an answer of the provider to
\* one fetch changes that fetch only.
C37_OrderIndependent ==
    /\ [](\A i \in TaskIds :
             (bpc = "gathering" /\ scored[i] /\ ~asyncFailed[i]) =>
                 /\ stock_data[i] = ResultsMapping(i)
                 /\ ret[i].kind = "result" =>
                       ret[i].top_stocks =
                           get_top_stocks(ResultsMapping(i), tickers, win[i], top_n))
    /\ [][\A i \in TaskIds : \A t \in TickerIdx :
             (fut[i][t].state = "running" /\ fut'[i][t] # fut[i][t]) =>
                 /\ \A j \in TaskIds : \A u \in TickerIdx :
                       <<j, u>> # <<i, t>> => fut'[j][u] = fut[j][u]
                 /\ UNCHANGED <<processed_data, stock_data, ret, pc>>]_vars

\* C37 witness: the second task finished first, then the first task selected
\* two tickers of equal score, in the order of the ticker list.
C37_Witness ==
    /\ bpc = "gathering"
    /\ completion = <<2, 1>>
    /\ max_workers = 2
    /\ scored[1]
    /\ ~asyncFailed[1]
    /\ ret[1].kind = "result"
    /\ Len(ret[1].top_stocks) = 2
    /\ ret[1].top_stocks[1].ticker = "AAA"
    /\ ScoreEQ(ret[1].top_stocks[1].score, ret[1].top_stocks[2].score)

\* --------------------------------------------- claims on the selected tickers
\* C38: every ticker of a task's selection is in the task's ticker list, has
\* a series in the task's fetched data and is selected once, also when the
\* ticker list holds a ticker more than once.
C38_SelectedOnceFromInput ==
    \A i \in TaskIds :
        (bpc = "gathering" /\ pc[i] = "done" /\ ret[i].kind = "result") =>
            \A k \in 1..Len(ret[i].top_stocks) :
                /\ ret[i].top_stocks[k].ticker \in Names(tickers)
                /\ ret[i].top_stocks[k].ticker \in Keys(stock_data[i])
                /\ \A l \in 1..Len(ret[i].top_stocks) :
                      ret[i].top_stocks[l].ticker = ret[i].top_stocks[k].ticker
                          => l = k

\* C38 witness: the ticker list holds AAA twice, both fetches returned a
\* series, two tickers may be selected, and the selection is AAA once.
C38_Witness ==
    \E i \in TaskIds :
        /\ bpc = "gathering"
        /\ tickers = <<"AAA", "AAA">>
        /\ top_n = 2
        /\ fut[i][1].result # NoFrame
        /\ fut[i][2].result # NoFrame
        /\ ret[i].kind = "result"
        /\ ret[i].success
        /\ Len(ret[i].top_stocks) = 1
        /\ ret[i].top_stocks[1].ticker = "AAA"

====
